---- MODULE Spec2Model ----
(***************************************************************************)
(* Conversation state machine, deterministic intent dispatcher, domain     *)
(* operations ("tools") and appointment store of superbryn-backend.        *)
(*                                                                         *)
(*   agent/conversation.py   ConversationState, ConversationContext        *)
(*   agent/router.py         IntentRouter.validate_and_dispatch            *)
(*   agent/tools.py          the seven tools                               *)
(*   database.py             AppointmentDB (mock path and Supabase path)   *)
(*                                                                         *)
(* Strings that the code only compares or stores are TLA+ strings; a phone *)
(* number, which the code rewrites and matches against a pattern, is a     *)
(* sequence of one-character strings.  Python's None and an argument that  *)
(* is absent from the entity mapping are the sentinels None / Missing.     *)
(***************************************************************************)
EXTENDS Integers, Sequences, FiniteSets, TLC

(* ------------------------------ bounds --------------------------------- *)

\* records the store may hold
MaxAppts == 2

\* tool calls that return, over all sessions (the entries of all the
\* identified_intents lists together)
MaxIntents == 4

\* the sessions, one ConversationContext each, sharing the one store
Sessions == {"s1", "s2"}

(* ----------------------------- sentinels ------------------------------- *)

None == "<None>"

Missing == "<missing>"

NonePhone == <<"<None>">>

MissingPhone == <<"<missing>">>

(* ------------------------- ConversationState --------------------------- *)

UNIDENTIFIED == "unidentified"

IDENTIFIED == "identified"

BROWSING_SLOTS == "browsing_slots"

BOOKING == "booking"

CONFIRMING == "confirming"

RETRIEVING == "retrieving"

CANCELLING == "cancelling"

MODIFYING == "modifying"

COMPLETED == "completed"

ConversationState ==
    {UNIDENTIFIED, IDENTIFIED, BROWSING_SLOTS, BOOKING, CONFIRMING,
     RETRIEVING, CANCELLING, MODIFYING, COMPLETED}

\* valid_transitions with COMPLETED given an escape back to IDENTIFIED, like
\* every other state
valid_transitions_completed_escapes(s) ==
    CASE s = UNIDENTIFIED   -> {IDENTIFIED}
      [] s = IDENTIFIED     -> {BROWSING_SLOTS, RETRIEVING, CANCELLING,
                                MODIFYING, COMPLETED}
      [] s = BROWSING_SLOTS -> {BOOKING, IDENTIFIED}
      [] s = BOOKING        -> {CONFIRMING, IDENTIFIED}
      [] s = CONFIRMING     -> {COMPLETED, IDENTIFIED}
      [] s = RETRIEVING     -> {IDENTIFIED}
      [] s = CANCELLING     -> {IDENTIFIED}
      [] s = MODIFYING      -> {IDENTIFIED}
      [] s = COMPLETED      -> {IDENTIFIED}
      [] OTHER              -> {}

\* valid_transitions.get(state, [])
valid_transitions(s) ==
    CASE s = UNIDENTIFIED   -> {IDENTIFIED}
      [] s = IDENTIFIED     -> {BROWSING_SLOTS, RETRIEVING, CANCELLING,
                                MODIFYING, COMPLETED}
      [] s = BROWSING_SLOTS -> {BOOKING, IDENTIFIED}
      [] s = BOOKING        -> {CONFIRMING, IDENTIFIED}
      [] s = CONFIRMING     -> {COMPLETED, IDENTIFIED}
      [] s = RETRIEVING     -> {IDENTIFIED}
      [] s = CANCELLING     -> {IDENTIFIED}
      [] s = MODIFYING      -> {IDENTIFIED}
      [] s = COMPLETED      -> {}
      [] OTHER              -> {}

can_transition_to(c, target) == target \in valid_transitions(c.state)

\* the context after transition_to(target); its return value is
\* can_transition_to(c, target)
transition_to(c, target) ==
    IF can_transition_to(c, target) THEN [c EXCEPT !.state = target] ELSE c

\* is_identified with the phone test inverted ("is None" for "is not None")
\* and joined by "or"
is_identified_phone_test_inverted(c) ==
    c.user_phone = NonePhone \/ c.state # UNIDENTIFIED

is_identified(c) == c.user_phone # NonePhone /\ c.state # UNIDENTIFIED

\* ConversationContext() with the dataclass defaults
NewContext ==
    [state               |-> UNIDENTIFIED,
     user_phone          |-> NonePhone,
     user_name           |-> None,
     pending_appointment |-> None,
     identified_intents  |-> << >>]

(* ------------------------------ inputs --------------------------------- *)

\* datetime.now().date(), as the day of the month of January 2026
Today == 28

\* range(9, 17)
AVAILABLE_HOURS == 9..16

Digits == {"0", "1", "2", "3", "4", "5", "6", "7", "8", "9"}

Phone5551234567 == <<"5", "5", "5", "1", "2", "3", "4", "5", "6", "7">>

PhoneDashed == <<"5", "5", "5", "-", "1", "2", "3", "-", "4", "5", "6", "7">>

PhoneDotted == <<"5", "5", "5", ".", "1", "2", "3", ".", "4", "5", "6", "7">>

PhonePlus1 == <<"+", "1", "5", "5", "5", "9", "8", "7", "6", "5", "4", "3">>

PhoneShort == <<"1", "2", "3", "4", "5">>

\* the entities of an identify_user dispatch
IdentifyEntities ==
    {[phone |-> Phone5551234567, name |-> "John"],
     [phone |-> PhoneDashed,     name |-> "John"],
     [phone |-> PhoneDotted,     name |-> "John"],
     [phone |-> PhonePlus1,      name |-> Missing],
     [phone |-> PhonePlus1,      name |-> None],
     [phone |-> PhoneShort,      name |-> "John"],
     [phone |-> NonePhone,       name |-> None],
     [phone |-> MissingPhone,    name |-> "John"]}

\* dates and times a booking accepts: today or later, hour in 9..16
ValidDates == {"2026-01-28", "2026-01-29"}

ValidTimes == {"09:00", "14:00"}

\* the entities of a book_appointment dispatch: every valid slot, and one
\* case of each way the arguments can be wrong
BookEntities ==
    [date : ValidDates, time : ValidTimes]
    \cup {[date |-> "2026-01-27", time |-> "09:00"],
          [date |-> "2026-01-28", time |-> "20:00"],
          [date |-> "tomorrow",   time |-> "14:00"],
          [date |-> "2026-01-29", time |-> "2pm"],
          [date |-> None,         time |-> "14:00"],
          [date |-> "2026-01-29", time |-> None],
          [date |-> Missing,      time |-> "14:00"],
          [date |-> "2026-01-29", time |-> Missing]}

\* the new_date / new_time entities of a modify_appointment dispatch
ModifyChanges ==
    {[new_date |-> "2026-01-29", new_time |-> Missing],
     [new_date |-> None,         new_time |-> "14:00"],
     [new_date |-> "2026-01-28", new_time |-> "09:00"],
     [new_date |-> Missing,      new_time |-> Missing]}

\* f"mock_{n}"
MockId(n) ==
    CASE n = 1 -> "mock_1"
      [] n = 2 -> "mock_2"
      [] n = 3 -> "mock_3"
      [] n = 4 -> "mock_4"
      [] OTHER -> "mock_5"

\* the appointment_id entity: the ids the store can assign, "mock_id" (the
\* keyword classifier's placeholder), the empty string, None and absent
IdArgs == {MockId(n) : n \in 1..MaxAppts} \cup {"mock_id", "", None, Missing}

\* datetime.fromisoformat(date).date(): the day, counted from 1 January 2026
\* on (1 February is day 32), or -1 for ValueError
ParseDate(d) ==
    CASE d = "2026-01-26" -> 26
      [] d = "2026-01-27" -> 27
      [] d = "2026-01-28" -> 28
      [] d = "2026-01-29" -> 29
      [] d = "2026-01-30" -> 30
      [] d = "2026-01-31" -> 31
      [] d = "2026-02-01" -> 32
      [] d = "2026-02-02" -> 33
      [] d = "2026-02-03" -> 34
      [] d = "2026-02-04" -> 35
      [] d = "2026-02-05" -> 36
      [] d = "2026-02-06" -> 37
      [] d = "2026-02-07" -> 38
      [] d = "2026-02-08" -> 39
      [] OTHER            -> -1

\* datetime.strptime(time, "%H:%M").time().hour, or -1 for ValueError
ParseTime(t) ==
    CASE t = "09:00" -> 9
      [] t = "9:00"  -> 9
      [] t = "10:00" -> 10
      [] t = "11:00" -> 11
      [] t = "12:00" -> 12
      [] t = "13:00" -> 13
      [] t = "14:00" -> 14
      [] t = "15:00" -> 15
      [] t = "16:00" -> 16
      [] t = "20:00" -> 20
      [] OTHER       -> -1

(* --------------------------- AppointmentDB ----------------------------- *)

RECURSIVE FilterSeq(_, _)
\* the subsequence of q whose elements are not in the set drop
FilterSeq(q, drop) ==
    IF q = << >> THEN << >>
    ELSE IF Head(q) \in drop THEN FilterSeq(Tail(q), drop)
    ELSE <<Head(q)>> \o FilterSeq(Tail(q), drop)

\* indexes of the records of st with the given id (at most one)
IndexOfId(st, id) == {i \in 1..Len(st) : st[i].id = id}

\* another booked record at (date, time); exclude is an id or None
SlotTaken(st, date, time, exclude) ==
    \E i \in 1..Len(st) :
        /\ st[i].id # exclude
        /\ st[i].appointment_date = date
        /\ st[i].appointment_time = time
        /\ st[i].status = "booked"

DbResult(st, ok, appt, err) ==
    [st |-> st, success |-> ok, appointment |-> appt, error |-> err]

\* create_appointment whose double-booking loop compares the date only
\* against records of the same user
create_appointment_checks_own_only(st, user_phone, user_name, date, time, notes) ==
    LET appointment ==
            [id               |-> MockId(Len(st) + 1),
             user_phone       |-> user_phone,
             user_name        |-> user_name,
             appointment_date |-> date,
             appointment_time |-> time,
             status           |-> "booked",
             notes            |-> notes]
        taken == \E i \in 1..Len(st) :
                    /\ st[i].user_phone = user_phone
                    /\ st[i].appointment_date = date
                    /\ st[i].appointment_time = time
                    /\ st[i].status = "booked"
    IN  IF taken
        THEN DbResult(st, FALSE, None, "slot_already_booked")
        ELSE DbResult(Append(st, appointment), TRUE, appointment.id, "")

\* create_appointment whose double-booking loop does not look at the status:
\* a cancelled record keeps its slot taken
create_appointment_counts_cancelled(st, user_phone, user_name, date, time, notes) ==
    LET appointment ==
            [id               |-> MockId(Len(st) + 1),
             user_phone       |-> user_phone,
             user_name        |-> user_name,
             appointment_date |-> date,
             appointment_time |-> time,
             status           |-> "booked",
             notes            |-> notes]
    IN  IF \E k \in 1..Len(st) : /\ st[k].appointment_date = date
                                 /\ st[k].appointment_time = time
        THEN DbResult(st, FALSE, None, "slot_already_booked")
        ELSE DbResult(Append(st, appointment), TRUE, appointment.id, "")

\* AppointmentDB.create_appointment, mock path
create_appointment(st, user_phone, user_name, date, time, notes) ==
    LET appointment ==
            [id               |-> MockId(Len(st) + 1),
             user_phone       |-> user_phone,
             user_name        |-> user_name,
             appointment_date |-> date,
             appointment_time |-> time,
             status           |-> "booked",
             notes            |-> notes]
    IN  IF SlotTaken(st, date, time, None)
        THEN DbResult(st, FALSE, None, "slot_already_booked")
        ELSE DbResult(Append(st, appointment), TRUE, appointment.id, "")

RECURSIVE IdsOf(_)
IdsOf(q) == IF q = << >> THEN << >> ELSE <<Head(q).id>> \o IdsOf(Tail(q))

\* get_user_appointments that ignores its status filter
get_user_appointments_ignores_status(st, user_phone, status) ==
    LET Mine(r) == r.user_phone = user_phone
    IN  IdsOf(SelectSeq(st, Mine))

\* AppointmentDB.get_user_appointments, mock path: the ids of the matching
\* records, in store order
get_user_appointments(st, user_phone, status) ==
    LET Mine(r) == r.user_phone = user_phone
        Stat(r) == status = None \/ r.status = status
    IN  IdsOf(SelectSeq(SelectSeq(st, Mine), Stat))

\* cancel_appointment that removes the record instead of marking it
db_cancel_appointment_deletes(st, appointment_id, user_phone) ==
    IF IndexOfId(st, appointment_id) = {}
    THEN DbResult(st, FALSE, None, "not_found")
    ELSE LET i == CHOOSE j \in IndexOfId(st, appointment_id) : TRUE
         IN  IF st[i].user_phone # user_phone
             THEN DbResult(st, FALSE, None, "no_permission")
             ELSE DbResult(SubSeq(st, 1, i - 1) \o SubSeq(st, i + 1, Len(st)),
                           TRUE, appointment_id, "")

\* cancel_appointment that flips the status: a cancelled record becomes
\* booked again
db_cancel_appointment_toggles(st, appointment_id, user_phone) ==
    IF IndexOfId(st, appointment_id) = {}
    THEN DbResult(st, FALSE, None, "not_found")
    ELSE LET i == CHOOSE j \in IndexOfId(st, appointment_id) : TRUE
         IN  IF st[i].user_phone # user_phone
             THEN DbResult(st, FALSE, None, "no_permission")
             ELSE DbResult([st EXCEPT ![i].status =
                                IF @ = "booked" THEN "cancelled" ELSE "booked"],
                           TRUE, appointment_id, "")

\* AppointmentDB.cancel_appointment, mock path
db_cancel_appointment(st, appointment_id, user_phone) ==
    IF IndexOfId(st, appointment_id) = {}
    THEN DbResult(st, FALSE, None, "not_found")
    ELSE LET i == CHOOSE j \in IndexOfId(st, appointment_id) : TRUE
         IN  IF st[i].user_phone # user_phone
             THEN DbResult(st, FALSE, None, "no_permission")
             ELSE DbResult([st EXCEPT ![i].status = "cancelled"], TRUE,
                           appointment_id, "")

\* modify_appointment without the ownership check
db_modify_appointment_skips_owner_check(st, appointment_id, user_phone, new_date, new_time) ==
    IF IndexOfId(st, appointment_id) = {}
    THEN DbResult(st, FALSE, None, "not_found")
    ELSE LET i == CHOOSE j \in IndexOfId(st, appointment_id) : TRUE
             hasDate == new_date \notin {None, ""}
             hasTime == new_time \notin {None, ""}
             check_date == IF hasDate THEN new_date ELSE st[i].appointment_date
             check_time == IF hasTime THEN new_time ELSE st[i].appointment_time
         IN  IF SlotTaken(st, check_date, check_time, appointment_id)
             THEN DbResult(st, FALSE, None, "new_slot_already_booked")
             ELSE DbResult(
                    [st EXCEPT ![i].appointment_date = check_date,
                               ![i].appointment_time = check_time],
                    TRUE, appointment_id, "")

\* modify_appointment whose conflict check does not skip the record being
\* modified
db_modify_appointment_counts_own_slot(st, appointment_id, user_phone, new_date, new_time) ==
    IF IndexOfId(st, appointment_id) = {}
    THEN DbResult(st, FALSE, None, "not_found")
    ELSE LET i == CHOOSE j \in IndexOfId(st, appointment_id) : TRUE
             hasDate == new_date \notin {None, ""}
             hasTime == new_time \notin {None, ""}
             check_date == IF hasDate THEN new_date ELSE st[i].appointment_date
             check_time == IF hasTime THEN new_time ELSE st[i].appointment_time
         IN  IF st[i].user_phone # user_phone
             THEN DbResult(st, FALSE, None, "no_permission")
             ELSE IF SlotTaken(st, check_date, check_time, None)
             THEN DbResult(st, FALSE, None, "new_slot_already_booked")
             ELSE DbResult(
                    [st EXCEPT ![i].appointment_date = check_date,
                               ![i].appointment_time = check_time],
                    TRUE, appointment_id, "")

\* modify_appointment that also sets the record's status back to booked
db_modify_appointment_rebooks(st, appointment_id, user_phone, new_date, new_time) ==
    IF IndexOfId(st, appointment_id) = {}
    THEN DbResult(st, FALSE, None, "not_found")
    ELSE LET i == CHOOSE j \in IndexOfId(st, appointment_id) : TRUE
             hasDate == new_date \notin {None, ""}
             hasTime == new_time \notin {None, ""}
             check_date == IF hasDate THEN new_date ELSE st[i].appointment_date
             check_time == IF hasTime THEN new_time ELSE st[i].appointment_time
         IN  IF st[i].user_phone # user_phone
             THEN DbResult(st, FALSE, None, "no_permission")
             ELSE IF SlotTaken(st, check_date, check_time, appointment_id)
             THEN DbResult(st, FALSE, None, "new_slot_already_booked")
             ELSE DbResult(
                    [st EXCEPT ![i].appointment_date = check_date,
                               ![i].appointment_time = check_time,
                               ![i].status = "booked"],
                    TRUE, appointment_id, "")

\* AppointmentDB.modify_appointment, mock path; new_date / new_time are a
\* string or None, and "" is falsy like None
db_modify_appointment(st, appointment_id, user_phone, new_date, new_time) ==
    IF IndexOfId(st, appointment_id) = {}
    THEN DbResult(st, FALSE, None, "not_found")
    ELSE LET i == CHOOSE j \in IndexOfId(st, appointment_id) : TRUE
             hasDate == new_date \notin {None, ""}
             hasTime == new_time \notin {None, ""}
             check_date == IF hasDate THEN new_date ELSE st[i].appointment_date
             check_time == IF hasTime THEN new_time ELSE st[i].appointment_time
         IN  IF st[i].user_phone # user_phone
             THEN DbResult(st, FALSE, None, "no_permission")
             ELSE IF SlotTaken(st, check_date, check_time, appointment_id)
             THEN DbResult(st, FALSE, None, "new_slot_already_booked")
             ELSE DbResult(
                    [st EXCEPT ![i].appointment_date = check_date,
                               ![i].appointment_time = check_time],
                    TRUE, appointment_id, "")

(* ------------------------------- tools --------------------------------- *)

\* What a tool call leaves behind: the context and the store as the call
\* left them, the returned success flag and error, the AppointmentDB methods
\* it called, and the exception it raised ("none" when it returned).
ToolOut(c, st, ok, err, calls, raised) ==
    [c |-> c, st |-> st, success |-> ok, error |-> err, calls |-> calls,
     raised |-> raised]

\* phone.strip().replace('-', '').replace(' ', '').replace('(', '').replace(')', '')
NormalizePhone(phone) == FilterSeq(phone, {"-", " ", "(", ")"})

\* re.match(r'^\+?1?\d{10,}$', phone)
PhoneMatches(phone) ==
    LET rest == IF phone # << >> /\ Head(phone) = "+" THEN Tail(phone) ELSE phone
    IN  /\ Len(rest) >= 10
        /\ \A i \in 1..Len(rest) : rest[i] \in Digits

\* identify_user that stores the phone before validating it
identify_user_stores_unvalidated(c, st, phone, name) ==
    IF phone = MissingPhone
    THEN ToolOut(c, st, FALSE, "missing_argument", {}, "TypeError")
    ELSE IF phone = NonePhone
    THEN ToolOut(c, st, FALSE, "NoneType_has_no_strip", {}, "Exception")
    ELSE LET p == NormalizePhone(phone)
             n == IF name = Missing THEN None ELSE name
             c1 == [c EXCEPT !.user_phone = p, !.user_name = n]
         IN  IF ~PhoneMatches(p)
             THEN ToolOut(c1, st, FALSE, "invalid_phone", {}, "none")
             ELSE ToolOut(transition_to(c1, IDENTIFIED), st, TRUE, "", {},
                          "none")

identify_user(c, st, phone, name) ==
    IF phone = MissingPhone
    THEN ToolOut(c, st, FALSE, "missing_argument", {}, "TypeError")
    ELSE IF phone = NonePhone
    THEN ToolOut(c, st, FALSE, "NoneType_has_no_strip", {}, "Exception")
    ELSE LET p == NormalizePhone(phone)
             n == IF name = Missing THEN None ELSE name
         IN  IF ~PhoneMatches(p)
             THEN ToolOut(c, st, FALSE, "invalid_phone", {}, "none")
             ELSE ToolOut(
                    transition_to([c EXCEPT !.user_phone = p, !.user_name = n],
                                  IDENTIFIED),
                    st, TRUE, "", {}, "none")

\* fetch_slots: its effect on the context.  The slot list it returns is
\* computed from the clock alone (the date argument and the store are not
\* read) and is kept in no state.
fetch_slots(c, st, date) ==
    IF ~is_identified(c)
    THEN ToolOut(c, st, FALSE, "identify_first", {}, "none")
    ELSE ToolOut(transition_to(c, BROWSING_SLOTS), st, TRUE, "", {}, "none")

\* check_date.isoformat(), for the day counted from 1 January 2026
IsoFormat(d) ==
    CASE d = 26 -> "2026-01-26"
      [] d = 27 -> "2026-01-27"
      [] d = 28 -> "2026-01-28"
      [] d = 29 -> "2026-01-29"
      [] d = 30 -> "2026-01-30"
      [] d = 31 -> "2026-01-31"
      [] d = 32 -> "2026-02-01"
      [] d = 33 -> "2026-02-02"
      [] d = 34 -> "2026-02-03"
      [] d = 35 -> "2026-02-04"
      [] d = 36 -> "2026-02-05"
      [] d = 37 -> "2026-02-06"
      [] d = 38 -> "2026-02-07"
      [] OTHER  -> "2026-02-08"

\* f"{hour:02d}:00"
HourFormat(hour) ==
    CASE hour = 9  -> "09:00"
      [] hour = 10 -> "10:00"
      [] hour = 11 -> "11:00"
      [] hour = 12 -> "12:00"
      [] hour = 13 -> "13:00"
      [] hour = 14 -> "14:00"
      [] hour = 15 -> "15:00"
      [] OTHER     -> "16:00"

\* check_date.weekday(): 0 for Monday .. 6 for Sunday (1 January 2026 is a
\* Thursday)
Weekday(d) == (d + 2) % 7

\* AVAILABLE_DAYS with Saturday added
IsAvailableDay_with_saturday(d) == Weekday(d) < 6

\* check_date.strftime('%A') in AVAILABLE_DAYS
IsAvailableDay(d) == Weekday(d) < 5

\* the slots fetch_slots appends for one day_offset: every hour of
\* AVAILABLE_HOURS in order, but 12, and but 9 and 10 of tomorrow
DaySlots(today, day_offset) ==
    LET Keep(hour) == ~(hour = 12 \/ (day_offset = 1 /\ hour \in {9, 10}))
        hours == SelectSeq([i \in 1..Cardinality(AVAILABLE_HOURS) |-> i + 8],
                           Keep)
    IN  IF ~IsAvailableDay(today + day_offset) THEN << >>
        ELSE [k \in 1..Len(hours) |->
                [date      |-> IsoFormat(today + day_offset),
                 time      |-> HourFormat(hours[k]),
                 available |-> TRUE]]

RECURSIVE SlotsFrom(_, _)
\* the list "slots" of fetch_slots for the day_offsets from day_offset to 7
SlotsFrom(today, day_offset) ==
    IF day_offset > 7 THEN << >>
    ELSE DaySlots(today, day_offset) \o SlotsFrom(today, day_offset + 1)

\* the "slots" and "total_available" keys of fetch_slots's success result,
\* with datetime.now().date() = today
fetch_slots_returned(today) ==
    LET slots == SlotsFrom(today, 1)
    IN  [slots |-> SubSeq(slots, 1, IF Len(slots) < 10 THEN Len(slots) ELSE 10),
         total_available |-> Len(slots)]

\* book_appointment without the business-hours check
book_appointment_checks_any_hour(c, st, date, time) ==
    IF date = Missing \/ time = Missing
    THEN ToolOut(c, st, FALSE, "missing_argument", {}, "TypeError")
    ELSE IF ~is_identified(c)
    THEN ToolOut(c, st, FALSE, "identify_first", {}, "none")
    ELSE IF date = None
    THEN ToolOut(c, st, FALSE, "fromisoformat_argument", {}, "TypeError")
    ELSE IF ParseDate(date) = -1
    THEN ToolOut(c, st, FALSE, "invalid_format", {}, "none")
    ELSE IF time = None
    THEN ToolOut(c, st, FALSE, "strptime_argument", {}, "TypeError")
    ELSE IF ParseTime(time) = -1
    THEN ToolOut(c, st, FALSE, "invalid_format", {}, "none")
    ELSE IF ParseDate(date) < Today
    THEN ToolOut(c, st, FALSE, "past_date", {}, "none")
    ELSE ToolOut(c, st, TRUE, "", {}, "none")

\* book_appointment up to its call of db.create_appointment: the failure it
\* returns or raises, or success = TRUE when every check passed
book_appointment_checks(c, st, date, time) ==
    IF date = Missing \/ time = Missing
    THEN ToolOut(c, st, FALSE, "missing_argument", {}, "TypeError")
    ELSE IF ~is_identified(c)
    THEN ToolOut(c, st, FALSE, "identify_first", {}, "none")
    ELSE IF date = None
    THEN ToolOut(c, st, FALSE, "fromisoformat_argument", {}, "TypeError")
    ELSE IF ParseDate(date) = -1
    THEN ToolOut(c, st, FALSE, "invalid_format", {}, "none")
    ELSE IF time = None
    THEN ToolOut(c, st, FALSE, "strptime_argument", {}, "TypeError")
    ELSE IF ParseTime(time) = -1
    THEN ToolOut(c, st, FALSE, "invalid_format", {}, "none")
    ELSE IF ParseDate(date) < Today
    THEN ToolOut(c, st, FALSE, "past_date", {}, "none")
    ELSE IF ParseTime(time) \notin AVAILABLE_HOURS
    THEN ToolOut(c, st, FALSE, "outside_business_hours", {}, "none")
    ELSE ToolOut(c, st, TRUE, "", {}, "none")

\* book_appointment that does not look at the store's success flag: a
\* rejected insert is reported as a booking
book_appointment_ignores_conflict(c, result) ==
    ToolOut(transition_to(
                [c EXCEPT !.pending_appointment = result.appointment],
                COMPLETED),
            result.st, TRUE, "", {"create_appointment"}, "none")

\* book_appointment whose last step moves to BOOKING instead of COMPLETED
book_appointment_result_enters_booking(c, result) ==
    IF ~result.success
    THEN ToolOut(c, result.st, FALSE, result.error, {"create_appointment"},
                 "none")
    ELSE ToolOut(transition_to(
                    [c EXCEPT !.pending_appointment = result.appointment],
                    BOOKING),
                 result.st, TRUE, "", {"create_appointment"}, "none")

\* book_appointment from the return of db.create_appointment on
book_appointment_result(c, result) ==
    IF ~result.success
    THEN ToolOut(c, result.st, FALSE, result.error, {"create_appointment"},
                 "none")
    ELSE ToolOut(transition_to(
                    [c EXCEPT !.pending_appointment = result.appointment],
                    COMPLETED),
                 result.st, TRUE, "", {"create_appointment"}, "none")

\* What context.pending_appointment holds, as a set: empty for None, else
\* the record.  In mock mode book_appointment stores the very dict that
\* create_appointment appended to the store's list, so the field reads
\* whatever the store's record of that id holds now.
pending_appointment_dict(c, st) ==
    {st[i] : i \in IndexOfId(st, c.pending_appointment)}

book_appointment(c, st, date, time, notes) ==
    LET checks == book_appointment_checks(c, st, date, time)
    IN  IF ~checks.success
        THEN checks
        ELSE book_appointment_result(c,
                create_appointment(st, c.user_phone, c.user_name, date, time,
                                   IF notes = Missing THEN None ELSE notes))

retrieve_appointments(c, st) ==
    IF ~is_identified(c)
    THEN ToolOut(c, st, FALSE, "identify_first", {}, "none")
    ELSE ToolOut(transition_to(c, RETRIEVING), st, TRUE, "",
                 {"get_user_appointments"}, "none")

\* cancel_appointment that moves to COMPLETED instead of CANCELLING
cancel_appointment_completes(c, st, appointment_id) ==
    IF appointment_id = Missing
    THEN ToolOut(c, st, FALSE, "missing_argument", {}, "TypeError")
    ELSE IF ~is_identified(c)
    THEN ToolOut(c, st, FALSE, "identify_first", {}, "none")
    ELSE LET c1 == transition_to(c, COMPLETED)
         IN  IF appointment_id \in {None, ""}
             THEN ToolOut(c1, st, FALSE, "no_appointment_id", {}, "none")
             ELSE LET result == db_cancel_appointment(st, appointment_id,
                                                      c.user_phone)
                  IN  ToolOut(c1, result.st, result.success, result.error,
                              {"cancel_appointment"}, "none")

cancel_appointment(c, st, appointment_id) ==
    IF appointment_id = Missing
    THEN ToolOut(c, st, FALSE, "missing_argument", {}, "TypeError")
    ELSE IF ~is_identified(c)
    THEN ToolOut(c, st, FALSE, "identify_first", {}, "none")
    ELSE LET c1 == transition_to(c, CANCELLING)
         IN  IF appointment_id \in {None, ""}
             THEN ToolOut(c1, st, FALSE, "no_appointment_id", {}, "none")
             ELSE LET result == db_cancel_appointment(st, appointment_id,
                                                      c.user_phone)
                  IN  ToolOut(c1, result.st, result.success, result.error,
                              {"cancel_appointment"}, "none")

modify_appointment(c, st, appointment_id, new_date, new_time) ==
    IF appointment_id = Missing
    THEN ToolOut(c, st, FALSE, "missing_argument", {}, "TypeError")
    ELSE IF ~is_identified(c)
    THEN ToolOut(c, st, FALSE, "identify_first", {}, "none")
    ELSE LET c1 == transition_to(c, MODIFYING)
             nd == IF new_date = Missing THEN None ELSE new_date
             nt == IF new_time = Missing THEN None ELSE new_time
         IN  IF appointment_id \in {None, ""}
             THEN ToolOut(c1, st, FALSE, "no_appointment_id", {}, "none")
             ELSE IF nd \in {None, ""} /\ nt \in {None, ""}
             THEN ToolOut(c1, st, FALSE, "nothing_to_change", {}, "none")
             ELSE LET result == db_modify_appointment(st, appointment_id,
                                                      c.user_phone, nd, nt)
                  IN  ToolOut(c1, result.st, result.success, result.error,
                              {"modify_appointment"}, "none")

\* end_conversation that also empties the context's identified_intents
end_conversation_clears_trail(c, st) ==
    ToolOut(transition_to([c EXCEPT !.identified_intents = << >>], COMPLETED),
            st, TRUE, "", {}, "none")

end_conversation(c, st) ==
    ToolOut(transition_to(c, COMPLETED), st, TRUE, "", {}, "none")

\* the keys of AVAILABLE_TOOLS
AVAILABLE_TOOLS ==
    {"identify_user", "fetch_slots", "book_appointment",
     "retrieve_appointments", "cancel_appointment", "modify_appointment",
     "end_conversation"}

(* ------------------------------ router --------------------------------- *)

\* _validate_state_for_intent without the identify_user rule: identify_user
\* is valid in every state
_validate_state_for_intent_any_identify(intent, c) ==
    IF intent \in {"fetch_slots", "book_appointment",
                   "retrieve_appointments", "cancel_appointment",
                   "modify_appointment"}
    THEN is_identified(c)
    ELSE TRUE

\* IntentRouter._validate_state_for_intent: the "valid" flag
_validate_state_for_intent(intent, c) ==
    IF intent = "identify_user"
    THEN c.state = UNIDENTIFIED
    ELSE IF intent \in {"fetch_slots", "book_appointment",
                        "retrieve_appointments", "cancel_appointment",
                        "modify_appointment"}
    THEN is_identified(c)
    ELSE TRUE

\* _get_suggestions without the final else: nothing to suggest outside
\* UNIDENTIFIED and IDENTIFIED
_get_suggestions_early_states_only(c) ==
    IF c.state = UNIDENTIFIED
    THEN <<"Please provide your phone number to get started">>
    ELSE IF c.state = IDENTIFIED
    THEN <<"Check available appointment slots",
           "View your existing appointments",
           "Book a new appointment">>
    ELSE << >>

\* IntentRouter._get_suggestions
_get_suggestions(c) ==
    IF c.state = UNIDENTIFIED
    THEN <<"Please provide your phone number to get started">>
    ELSE IF c.state = IDENTIFIED
    THEN <<"Check available appointment slots",
           "View your existing appointments",
           "Book a new appointment">>
    ELSE <<"Continue with your current request or say 'help'">>

\* validate_and_dispatch that calls the tool before it validates the state:
\* a refused dispatch keeps what the call did to the context and the store
validate_and_dispatch_validates_after_call(intent, c, st, out) ==
    IF intent \notin AVAILABLE_TOOLS
    THEN [c |-> c, st |-> st, success |-> FALSE,
          error |-> IF intent = "unknown" THEN "not_understood"
                    ELSE "unknown_intent",
          invoked |-> FALSE, raised |-> "none", calls |-> {},
          current_state |-> None,
          suggestions |-> IF intent = "unknown" THEN _get_suggestions(c)
                          ELSE << >>]
    ELSE IF ~_validate_state_for_intent(intent, c)
    THEN [c |-> out.c, st |-> out.st, success |-> FALSE,
          error |-> IF intent = "identify_user" THEN "already_identified"
                    ELSE "phone_number_first",
          invoked |-> FALSE, raised |-> "none", calls |-> {},
          current_state |-> c.state, suggestions |-> << >>]
    ELSE IF out.raised # "none"
    THEN [c |-> out.c, st |-> out.st, success |-> FALSE,
          error |-> IF out.raised = "TypeError" THEN "invalid_parameters"
                    ELSE "error_executing",
          invoked |-> TRUE, raised |-> out.raised, calls |-> out.calls,
          current_state |-> None, suggestions |-> << >>]
    ELSE [c |-> [out.c EXCEPT !.identified_intents = Append(@, intent)],
          st |-> out.st, success |-> out.success, error |-> out.error,
          invoked |-> TRUE, raised |-> "none", calls |-> out.calls,
          current_state |-> None, suggestions |-> << >>]

\* The outcome of IntentRouter.validate_and_dispatch(intent, entities, c)
\* against the store st, where out is what the tool call of this intent
\* with these entities leaves behind: the context and store after the call
\* and the result handed to the caller.
\*   invoked        the tool function was called
\*   current_state  the "current_state" key of the result, None when absent
\*   suggestions    the "suggestions" key of the result, << >> when absent
validate_and_dispatch(intent, c, st, out) ==
    IF intent \notin AVAILABLE_TOOLS
    THEN [c |-> c, st |-> st, success |-> FALSE,
          error |-> IF intent = "unknown" THEN "not_understood"
                    ELSE "unknown_intent",
          invoked |-> FALSE, raised |-> "none", calls |-> {},
          current_state |-> None,
          suggestions |-> IF intent = "unknown" THEN _get_suggestions(c)
                          ELSE << >>]
    ELSE IF ~_validate_state_for_intent(intent, c)
    THEN [c |-> c, st |-> st, success |-> FALSE,
          error |-> IF intent = "identify_user" THEN "already_identified"
                    ELSE "phone_number_first",
          invoked |-> FALSE, raised |-> "none", calls |-> {},
          current_state |-> c.state, suggestions |-> << >>]
    ELSE IF out.raised # "none"
    THEN [c |-> out.c, st |-> out.st, success |-> FALSE,
          error |-> IF out.raised = "TypeError" THEN "invalid_parameters"
                    ELSE "error_executing",
          invoked |-> TRUE, raised |-> out.raised, calls |-> out.calls,
          current_state |-> None, suggestions |-> << >>]
    ELSE [c |-> [out.c EXCEPT !.identified_intents = Append(@, intent)],
          st |-> out.st, success |-> out.success, error |-> out.error,
          invoked |-> TRUE, raised |-> "none", calls |-> out.calls,
          current_state |-> None, suggestions |-> << >>]

\* params_map without the "time" of book_appointment
_get_required_params_date_only(intent) ==
    CASE intent = "identify_user"      -> <<"phone">>
      [] intent = "book_appointment"   -> <<"date">>
      [] intent = "cancel_appointment" -> <<"appointment_id">>
      [] intent = "modify_appointment" -> <<"appointment_id">>
      [] OTHER                         -> << >>

\* IntentRouter._get_required_params
_get_required_params(intent) ==
    CASE intent = "identify_user"      -> <<"phone">>
      [] intent = "book_appointment"   -> <<"date", "time">>
      [] intent = "cancel_appointment" -> <<"appointment_id">>
      [] intent = "modify_appointment" -> <<"appointment_id">>
      [] OTHER                         -> << >>

\* the "required_params" key of the result r of validate_and_dispatch for
\* this intent, << >> when the result has no such key
required_params(intent, r) ==
    IF r.raised = "TypeError" THEN _get_required_params(intent) ELSE << >>

(* ---------------------- dispatches, per intent -------------------------- *)

\* validate_and_dispatch("identify_user", {phone, name}, c)
OnIdentifyUser(c, st, e) ==
    validate_and_dispatch("identify_user", c, st,
                          identify_user(c, st, e.phone, e.name))

\* validate_and_dispatch("fetch_slots", {}, c)
OnFetchSlots(c, st) ==
    validate_and_dispatch("fetch_slots", c, st, fetch_slots(c, st, None))

\* validate_and_dispatch("book_appointment", {date, time}, c)
OnBookAppointment(c, st, e) ==
    validate_and_dispatch("book_appointment", c, st,
                          book_appointment(c, st, e.date, e.time, Missing))

\* validate_and_dispatch("retrieve_appointments", {}, c)
OnRetrieveAppointments(c, st) ==
    validate_and_dispatch("retrieve_appointments", c, st,
                          retrieve_appointments(c, st))

\* validate_and_dispatch("cancel_appointment", {appointment_id}, c)
OnCancelAppointment(c, st, id) ==
    validate_and_dispatch("cancel_appointment", c, st,
                          cancel_appointment(c, st, id))

\* validate_and_dispatch("modify_appointment",
\*                       {appointment_id, new_date, new_time}, c)
OnModifyAppointment(c, st, id, e) ==
    validate_and_dispatch("modify_appointment", c, st,
                          modify_appointment(c, st, id, e.new_date, e.new_time))

\* validate_and_dispatch("end_conversation", {}, c)
OnEndConversation(c, st) ==
    validate_and_dispatch("end_conversation", c, st, end_conversation(c, st))

\* validate_and_dispatch(intent, {}, c) for an intent that is no key of
\* AVAILABLE_TOOLS
OnUnknownIntent(c, st, intent) ==
    validate_and_dispatch(intent, c, st, ToolOut(c, st, FALSE, "", {}, "none"))

\* validate_and_dispatch(intent, entities, c) for a tool and entities with
\* a key that is no parameter of the tool: the call raises a TypeError
\* before the tool's body runs
OnUnexpectedArgument(c, st, intent) ==
    validate_and_dispatch(intent, c, st,
        ToolOut(c, st, FALSE, "unexpected_keyword_argument", {}, "TypeError"))

\* intents that are no tool: the classifier's sentinel, and any other name
UnknownIntents == {"unknown", "transfer_funds"}

(* ------------------------------- state --------------------------------- *)

VARIABLES
    ctx,       \* ctx[s]: the ConversationContext of session s
    store,     \* the appointment records, oldest first
    inflight   \* inflight[s]: the AppointmentDB call session s is inside
               \* of, between two round trips to the Supabase table

vars == <<ctx, store, inflight>>

\* no AppointmentDB call in progress
Idle == [pc |-> "idle", date |-> None, time |-> None, id |-> None]

Init ==
    /\ ctx = [s \in Sessions |-> NewContext]
    /\ store = << >>
    /\ inflight = [s \in Sessions |-> Idle]

\* the entries of all identified_intents lists together
TotalIntents(cx) ==
    Len(cx["s1"].identified_intents) + Len(cx["s2"].identified_intents)

\* session s has dispatched an intent and r is what validate_and_dispatch
\* left behind
Dispatch(s, r) ==
    /\ TotalIntents([ctx EXCEPT ![s] = r.c]) <= MaxIntents
    /\ Len(r.st) <= MaxAppts
    /\ ctx' = [ctx EXCEPT ![s] = r.c]
    /\ store' = r.st
    /\ UNCHANGED inflight

DispatchIdentifyUser(s) ==
    \E e \in IdentifyEntities : Dispatch(s, OnIdentifyUser(ctx[s], store, e))

DispatchFetchSlots(s) == Dispatch(s, OnFetchSlots(ctx[s], store))

DispatchBookAppointment(s) ==
    \E e \in BookEntities : Dispatch(s, OnBookAppointment(ctx[s], store, e))

DispatchRetrieveAppointments(s) ==
    Dispatch(s, OnRetrieveAppointments(ctx[s], store))

DispatchCancelAppointment(s) ==
    \E id \in IdArgs : Dispatch(s, OnCancelAppointment(ctx[s], store, id))

DispatchModifyAppointment(s) ==
    \E id \in IdArgs, e \in ModifyChanges :
        Dispatch(s, OnModifyAppointment(ctx[s], store, id, e))

DispatchEndConversation(s) == Dispatch(s, OnEndConversation(ctx[s], store))

DispatchUnknownIntent(s) ==
    \E intent \in UnknownIntents :
        Dispatch(s, OnUnknownIntent(ctx[s], store, intent))

Next ==
    \E s \in Sessions :
        \/ DispatchIdentifyUser(s)
        \/ DispatchFetchSlots(s)
        \/ DispatchBookAppointment(s)
        \/ DispatchRetrieveAppointments(s)
        \/ DispatchCancelAppointment(s)
        \/ DispatchModifyAppointment(s)
        \/ DispatchEndConversation(s)
        \/ DispatchUnknownIntent(s)

\* mock mode (database.py MOCK_MODE): every AppointmentDB method is one
\* synchronous call on the in-memory list, so a dispatch is one step
Spec == Init /\ [][Next]_vars

(* --------------------------- Supabase path ----------------------------- *)

\* The appointments table refuses a row that would be the second booked row
\* of its (appointment_date, appointment_time): the execute() of the insert
\* raises.  src/test_manual.py (step 4) expects this constraint of the
\* table; the table's definition is not among the sources.
sb_insert_unconstrained(st, row) == [st |-> Append(st, row), raised |-> FALSE]

sb_insert(st, row) ==
    IF SlotTaken(st, row.appointment_date, row.appointment_time, None)
    THEN [st |-> st, raised |-> TRUE]
    ELSE [st |-> Append(st, row), raised |-> FALSE]

\* create_appointment, Supabase path, from the insert on: a raised insert
\* is caught and returned as a failure
sb_create_appointment_insert(st, user_phone, user_name, date, time, notes) ==
    LET row == [id               |-> MockId(Len(st) + 1),
                user_phone       |-> user_phone,
                user_name        |-> user_name,
                appointment_date |-> date,
                appointment_time |-> time,
                status           |-> "booked",
                notes            |-> notes]
        ins == sb_insert(st, row)
    IN  IF ins.raised
        THEN DbResult(st, FALSE, None, "insert_raised")
        ELSE DbResult(ins.st, TRUE, row.id, "")

\* sessions inside an AppointmentDB call
Busy == {s \in Sessions : inflight[s].pc # "idle"}

\* a new dispatch may start: the calls in progress and this one still fit
\* the bounds
MayStart(s) ==
    /\ inflight[s].pc = "idle"
    /\ TotalIntents(ctx) + Cardinality(Busy) < MaxIntents
    /\ Len(store) + Cardinality({b \in Busy : inflight[b].pc = "insert"})
            < MaxAppts

\* the dispatch of session s ends with outcome r
Finish(s, r) ==
    /\ ctx' = [ctx EXCEPT ![s] = r.c]
    /\ store' = r.st
    /\ inflight' = [inflight EXCEPT ![s] = Idle]

SbIdentifyUser(s) ==
    /\ MayStart(s)
    /\ \E e \in IdentifyEntities : Finish(s, OnIdentifyUser(ctx[s], store, e))

\* book_appointment up to and including create_appointment's select of the
\* booked rows of the slot
SbBookSelect(s) ==
    /\ MayStart(s)
    /\ \E e \in BookEntities :
        LET c == ctx[s]
            checks == book_appointment_checks(c, store, e.date, e.time)
        IN  IF ~_validate_state_for_intent("book_appointment", c)
               \/ ~checks.success
            THEN Finish(s, validate_and_dispatch("book_appointment", c, store,
                                                 checks))
            ELSE IF SlotTaken(store, e.date, e.time, None)
            THEN Finish(s, validate_and_dispatch("book_appointment", c, store,
                            book_appointment_result(c,
                                DbResult(store, FALSE, None,
                                         "slot_already_booked"))))
            ELSE /\ inflight' = [inflight EXCEPT ![s] =
                        [pc |-> "insert", date |-> e.date, time |-> e.time,
                         id |-> None]]
                 /\ UNCHANGED <<ctx, store>>

\* create_appointment's insert, and book_appointment from its return on
SbBookInsert(s) ==
    /\ inflight[s].pc = "insert"
    /\ LET c == ctx[s]
           result == sb_create_appointment_insert(store, c.user_phone,
                        c.user_name, inflight[s].date, inflight[s].time, None)
       IN  Finish(s, validate_and_dispatch("book_appointment", c, store,
                                           book_appointment_result(c, result)))

\* cancel_appointment up to and including the db's select of the row with
\* this id and this phone
SbCancelSelect(s) ==
    /\ MayStart(s)
    /\ \E id \in IdArgs :
        LET c == ctx[s]
            c1 == transition_to(c, CANCELLING)
            mine == {i \in IndexOfId(store, id) :
                        store[i].user_phone = c.user_phone}
        IN  IF ~_validate_state_for_intent("cancel_appointment", c)
               \/ id \in {Missing, None, ""}
            THEN Finish(s, OnCancelAppointment(c, store, id))
            ELSE IF mine = {}
            THEN Finish(s, validate_and_dispatch("cancel_appointment", c,
                            store,
                            ToolOut(c1, store, FALSE,
                                    "not_found_or_no_permission",
                                    {"cancel_appointment"}, "none")))
            ELSE /\ ctx' = [ctx EXCEPT ![s] = c1]
                 /\ inflight' = [inflight EXCEPT ![s] =
                        [pc |-> "update", date |-> None, time |-> None,
                         id |-> id]]
                 /\ UNCHANGED store

\* the db's update of the row to cancelled, and cancel_appointment from
\* its return on
SbCancelUpdate(s) ==
    /\ inflight[s].pc = "update"
    /\ LET c == ctx[s]
           i == CHOOSE j \in IndexOfId(store, inflight[s].id) : TRUE
           st1 == [store EXCEPT ![i].status = "cancelled"]
       IN  Finish(s, validate_and_dispatch("cancel_appointment", c, store,
                        ToolOut(c, st1, TRUE, "", {"cancel_appointment"},
                                "none")))

NextSupabase ==
    \E s \in Sessions :
        \/ SbIdentifyUser(s)
        \/ SbBookSelect(s)
        \/ SbBookInsert(s)
        \/ SbCancelSelect(s)
        \/ SbCancelUpdate(s)

\* database.py with a Supabase client: sessions are separate jobs, and the
\* round trips of their AppointmentDB calls interleave
SpecSupabase == Init /\ [][NextSupabase]_vars

(* --------------------------- voice pipeline ---------------------------- *)

\* A function tool of the voice agent has called a tool directly on the
\* job's conversation_ctx and out is what the call left behind: there is no
\* validate_and_dispatch around it, nothing is appended to
\* identified_intents, and an exception leaves the function tool as it left
\* the tool.
VoiceCall(s, out) ==
    /\ Len(out.st) <= MaxAppts
    /\ ctx' = [ctx EXCEPT ![s] = out.c]
    /\ store' = out.st
    /\ UNCHANGED inflight

VoiceIdentifyUser(s) ==
    \E e \in IdentifyEntities :
        VoiceCall(s, identify_user(ctx[s], store, e.phone, e.name))

VoiceFetchSlots(s) == VoiceCall(s, fetch_slots(ctx[s], store, None))

VoiceBookAppointment(s) ==
    \E e \in BookEntities :
        VoiceCall(s, book_appointment(ctx[s], store, e.date, e.time, None))

VoiceRetrieveAppointments(s) ==
    VoiceCall(s, retrieve_appointments(ctx[s], store))

VoiceCancelAppointment(s) ==
    \E id \in IdArgs : VoiceCall(s, cancel_appointment(ctx[s], store, id))

VoiceModifyAppointment(s) ==
    \E id \in IdArgs, e \in ModifyChanges :
        VoiceCall(s, modify_appointment(ctx[s], store, id, e.new_date,
                                        e.new_time))

NextVoice ==
    \E s \in Sessions :
        \/ VoiceIdentifyUser(s)
        \/ VoiceFetchSlots(s)
        \/ VoiceBookAppointment(s)
        \/ VoiceRetrieveAppointments(s)
        \/ VoiceCancelAppointment(s)
        \/ VoiceModifyAppointment(s)

\* agent_voice_pipeline.py: each job has its own ConversationContext, the
\* language model picks the function tool and its arguments, and the jobs
\* share the store
SpecVoice == Init /\ [][NextVoice]_vars

(* ============================== claims ================================= *)

Last(q) == q[Len(q)]

\* session s's latest tool call that returned was of this intent
JustRan(s, intent) ==
    /\ ctx[s].identified_intents # << >>
    /\ Last(ctx[s].identified_intents) = intent

\* the step is a dispatch by session s of this intent whose tool returned
Ran(s, intent) ==
    ctx'[s].identified_intents = Append(ctx[s].identified_intents, intent)

\* the booked records of st at (date, time)
BookedAt(st, date, time) ==
    {i \in 1..Len(st) : /\ st[i].appointment_date = date
                        /\ st[i].appointment_time = time
                        /\ st[i].status = "booked"}

(* ------------------------------- C1 ------------------------------------ *)

\* C1: after any sequence of dispatches, a context's state differs from
\* UNIDENTIFIED if and only if its user_phone is set.
C1_IdentifiedIffPhoneSet ==
    \A s \in Sessions :
        ctx[s].state # UNIDENTIFIED <=> ctx[s].user_phone # NonePhone

\* one session was identified and went on, the other ran end_conversation
\* while unidentified and is still unidentified with no phone
C1_Witness ==
    \E a, b \in Sessions :
        /\ ctx[a].state \notin {UNIDENTIFIED, IDENTIFIED}
        /\ ctx[a].user_phone # NonePhone
        /\ JustRan(b, "end_conversation")
        /\ ctx[b].state = UNIDENTIFIED
        /\ ctx[b].user_phone = NonePhone

(* ------------------------------- C2 ------------------------------------ *)

\* the transition table as the specification's section 4.1 gives it
TransitionTable ==
    [s \in ConversationState |->
        CASE s = UNIDENTIFIED   -> {IDENTIFIED}
          [] s = IDENTIFIED     -> {BROWSING_SLOTS, RETRIEVING, CANCELLING,
                                    MODIFYING, COMPLETED}
          [] s = BROWSING_SLOTS -> {BOOKING, IDENTIFIED}
          [] s = BOOKING        -> {CONFIRMING, IDENTIFIED}
          [] s = CONFIRMING     -> {COMPLETED, IDENTIFIED}
          [] s = RETRIEVING     -> {IDENTIFIED}
          [] s = CANCELLING     -> {IDENTIFIED}
          [] s = MODIFYING      -> {IDENTIFIED}
          [] s = COMPLETED      -> {}]

\* C2: for every current state cur and target t, on any context,
\* transition_to(t) returns True and sets the state to t if and only if t is
\* in the table entry of cur; otherwise it returns False and leaves the
\* context as it was.  No transition out of COMPLETED succeeds.
C2_TransitionIffInTable ==
    \A s \in Sessions, cur \in ConversationState, t \in ConversationState :
        LET c == [ctx[s] EXCEPT !.state = cur]
        IN  /\ can_transition_to(c, t) <=> t \in TransitionTable[cur]
            /\ t \in TransitionTable[cur] =>
                    transition_to(c, t) = [c EXCEPT !.state = t]
            /\ t \notin TransitionTable[cur] => transition_to(c, t) = c
            /\ cur = COMPLETED => ~can_transition_to(c, t)

\* a session in which transition_to has succeeded twice (to IDENTIFIED, to
\* BROWSING_SLOTS) and then refused book_appointment's move to COMPLETED
C2_Witness ==
    \E a \in Sessions :
        /\ ctx[a].state = BROWSING_SLOTS
        /\ JustRan(a, "book_appointment")
        /\ ctx[a].pending_appointment # None
        /\ ~can_transition_to(ctx[a], COMPLETED)

(* ------------------------------- C3 ------------------------------------ *)

\* r is a failure that left the context c unidentified
FailsUnidentified(r, c) ==
    /\ ~r.success
    /\ r.c.user_phone = NonePhone
    /\ r.c.state = c.state

\* C3 as stated: while state = UNIDENTIFIED, dispatching fetch_slots,
\* book_appointment, retrieve_appointments, cancel_appointment,
\* modify_appointment or end_conversation returns success = false and leaves
\* user_phone unset and the state unchanged.
C3_Original ==
    \A s \in Sessions :
        ctx[s].state = UNIDENTIFIED =>
            /\ FailsUnidentified(OnFetchSlots(ctx[s], store), ctx[s])
            /\ \A e \in BookEntities :
                FailsUnidentified(OnBookAppointment(ctx[s], store, e), ctx[s])
            /\ FailsUnidentified(OnRetrieveAppointments(ctx[s], store), ctx[s])
            /\ \A id \in IdArgs :
                FailsUnidentified(OnCancelAppointment(ctx[s], store, id), ctx[s])
            /\ \A id \in IdArgs, e \in ModifyChanges :
                FailsUnidentified(OnModifyAppointment(ctx[s], store, id, e),
                                  ctx[s])
            /\ FailsUnidentified(OnEndConversation(ctx[s], store), ctx[s])

\* C3 amended: while state = UNIDENTIFIED, dispatching fetch_slots,
\* book_appointment, retrieve_appointments, cancel_appointment or
\* modify_appointment returns success = false, leaves user_phone unset and
\* the state unchanged, and does not touch the store; end_conversation is
\* the one exception: it runs to completion and returns success = true, and
\* it too leaves user_phone unset.
C3_OnlyEndRunsUnidentified ==
    \A s \in Sessions :
        ctx[s].state = UNIDENTIFIED =>
            /\ FailsUnidentified(OnFetchSlots(ctx[s], store), ctx[s])
            /\ \A e \in BookEntities :
                LET r == OnBookAppointment(ctx[s], store, e)
                IN  FailsUnidentified(r, ctx[s]) /\ r.st = store
            /\ FailsUnidentified(OnRetrieveAppointments(ctx[s], store), ctx[s])
            /\ \A id \in IdArgs :
                LET r == OnCancelAppointment(ctx[s], store, id)
                IN  FailsUnidentified(r, ctx[s]) /\ r.st = store
            /\ \A id \in IdArgs, e \in ModifyChanges :
                LET r == OnModifyAppointment(ctx[s], store, id, e)
                IN  FailsUnidentified(r, ctx[s]) /\ r.st = store
            /\ LET r == OnEndConversation(ctx[s], store)
               IN  r.success /\ r.invoked /\ r.c.user_phone = NonePhone

\* an unidentified session that has run end_conversation, next to a store
\* that holds a record it could try to cancel or modify
C3_Witness ==
    \E s \in Sessions :
        /\ ctx[s].state = UNIDENTIFIED
        /\ JustRan(s, "end_conversation")
        /\ store # << >>
        /\ ~OnCancelAppointment(ctx[s], store, store[1].id).success

(* ------------------------------- C4 ------------------------------------ *)

NoDoubleBooking(st) ==
    \A i, j \in 1..Len(st) :
        (/\ i # j
         /\ st[i].status = "booked"
         /\ st[j].status = "booked"
         /\ st[i].appointment_date = st[j].appointment_date)
        => st[i].appointment_time # st[j].appointment_time

\* C4: after any sequence of create, cancel and modify calls from any
\* sessions, no two booked records share (appointment_date, appointment_time).
C4_NoTwoBookedShareSlot == NoDoubleBooking(store)

\* two records on one slot, the older one cancelled: create, cancel and
\* create again have all acted on the slot
C4_Witness ==
    \E i, j \in 1..Len(store) :
        /\ i < j
        /\ store[i].appointment_date = store[j].appointment_date
        /\ store[i].appointment_time = store[j].appointment_time
        /\ store[i].status = "cancelled"
        /\ store[j].status = "booked"

(* ------------------------------- C5 ------------------------------------ *)

\* C5: two book_appointment dispatches, one after the other, for the same
\* free slot (today or later, within business hours), by two identified
\* sessions or by one session twice: the first succeeds, the second fails
\* with the slot-already-booked error, and the store holds exactly one
\* booked record for the slot.
C5_SecondBookingConflicts ==
    \A a, b \in Sessions, e \in [date : ValidDates, time : ValidTimes] :
        (/\ is_identified(ctx[a])
         /\ is_identified(ctx[b])
         /\ BookedAt(store, e.date, e.time) = {})
        => LET r1 == OnBookAppointment(ctx[a], store, e)
               cx == [ctx EXCEPT ![a] = r1.c]
               r2 == OnBookAppointment(cx[b], r1.st, e)
           IN  /\ r1.success
               /\ ~r2.success
               /\ r2.error = "slot_already_booked"
               /\ r2.invoked
               /\ r2.st = r1.st
               /\ Cardinality(BookedAt(r2.st, e.date, e.time)) = 1

\* both sessions, identified with different phones, have dispatched
\* book_appointment; one holds the booking, the other was refused, and the
\* store has the one record
C5_Witness ==
    \E a, b \in Sessions :
        /\ a # b
        /\ ctx[a].user_phone # ctx[b].user_phone
        /\ JustRan(a, "book_appointment")
        /\ JustRan(b, "book_appointment")
        /\ ctx[a].pending_appointment # None
        /\ ctx[b].pending_appointment = None
        /\ Len(store) = 1
        /\ ~OnBookAppointment(ctx[b], store,
                [date |-> store[1].appointment_date,
                 time |-> store[1].appointment_time]).success

(* ------------------------------- C6 ------------------------------------ *)

\* session s's create_appointment passed its select and now inserts into a
\* slot that another booking has taken in between
LosesRace(s) ==
    /\ inflight[s].pc = "insert"
    /\ SlotTaken(store, inflight[s].date, inflight[s].time, None)

\* C6: with the select and the insert of concurrent create_appointment
\* calls interleaved in any order, at most one insert into a slot happens:
\* no step leaves two booked records on one slot, and the insert of a
\* session that lost the race adds nothing and is returned as a failure
\* (no pending_appointment, no change of state).
C6_ConcurrentBookingsExclusive ==
    [][/\ NoDoubleBooking(store')
       /\ \A s \in Sessions :
            (LosesRace(s) /\ inflight'[s].pc = "idle") =>
                /\ store' = store
                /\ ctx'[s].pending_appointment = ctx[s].pending_appointment
                /\ ctx'[s].state = ctx[s].state
                /\ Ran(s, "book_appointment")]_vars

\* two sessions passed the select for the same free slot; one has inserted
\* and holds the booking, the other is about to insert
C6_Witness ==
    \E a, b \in Sessions :
        /\ a # b
        /\ LosesRace(a)
        /\ ctx[b].pending_appointment # None
        /\ \E i \in BookedAt(store, inflight[a].date, inflight[a].time) :
                store[i].id = ctx[b].pending_appointment

(* ------------------------------- C7 ------------------------------------ *)

\* the step is a book_appointment dispatch by s that succeeded: the tool
\* returned and the store took the new record
BookSucceeded(s) ==
    /\ Ran(s, "book_appointment")
    /\ Len(store') = Len(store) + 1

\* C7: a successful book_appointment leaves the conversation in COMPLETED,
\* from whichever identified state it was dispatched.
C7_BookingCompletes ==
    [][\A s \in Sessions : BookSucceeded(s) => ctx'[s].state = COMPLETED]_vars

(* ------------------------------- C8 ------------------------------------ *)

\* C8: end_conversation is legal from every state: dispatched in any state
\* it returns success and leaves context.state = COMPLETED.
C8_EndAlwaysCompletes ==
    [][\A s \in Sessions :
        Ran(s, "end_conversation") => ctx'[s].state = COMPLETED]_vars

(* ------------------------------- C9 ------------------------------------ *)

\* r is a failure that made no AppointmentDB call
FailsWithoutStore(r) == ~r.success /\ r.calls = {} /\ r.st = store

\* C9: once context.state = COMPLETED, every dispatch of identify_user,
\* fetch_slots, book_appointment, retrieve_appointments, cancel_appointment
\* or modify_appointment returns failure and makes no store read or write.
C9_CompletedIsTerminal ==
    \A s \in Sessions :
        ctx[s].state = COMPLETED =>
            /\ \A e \in IdentifyEntities :
                FailsWithoutStore(OnIdentifyUser(ctx[s], store, e))
            /\ FailsWithoutStore(OnFetchSlots(ctx[s], store))
            /\ \A e \in BookEntities :
                FailsWithoutStore(OnBookAppointment(ctx[s], store, e))
            /\ FailsWithoutStore(OnRetrieveAppointments(ctx[s], store))
            /\ \A id \in IdArgs :
                FailsWithoutStore(OnCancelAppointment(ctx[s], store, id))
            /\ \A id \in IdArgs, e \in ModifyChanges :
                FailsWithoutStore(OnModifyAppointment(ctx[s], store, id, e))

(* ------------------------------- C10 ----------------------------------- *)

\* the step takes session s from another state into COMPLETED
EntersCompleted(s) ==
    ctx[s].state # COMPLETED /\ ctx'[s].state = COMPLETED

WorkingStates == {BROWSING_SLOTS, RETRIEVING, CANCELLING, MODIFYING}

\* what one dispatch of any intent, with any entities, can leave behind
DispatchOutcomes(c, st) ==
    {OnIdentifyUser(c, st, e) : e \in IdentifyEntities}
    \cup {OnFetchSlots(c, st)}
    \cup {OnBookAppointment(c, st, e) : e \in BookEntities}
    \cup {OnRetrieveAppointments(c, st)}
    \cup {OnCancelAppointment(c, st, id) : id \in IdArgs}
    \cup {OnModifyAppointment(c, st, id, e) : id \in IdArgs, e \in ModifyChanges}
    \cup {OnEndConversation(c, st)}
    \cup {OnUnknownIntent(c, st, intent) : intent \in UnknownIntents}

RECURSIVE CanReturnToIdentified(_, _, _)
\* some continuation of at most n dispatches takes c to state IDENTIFIED
CanReturnToIdentified(c, st, n) ==
    \/ c.state = IDENTIFIED
    \/ /\ n > 0
       /\ \E o \in DispatchOutcomes(c, st) :
            CanReturnToIdentified(o.c, o.st, n - 1)

C11_NoDispatchReentersIdentified ==
    [][\A s \in Sessions :
        ctx'[s].state = IDENTIFIED =>
            ctx[s].state \in {UNIDENTIFIED, IDENTIFIED}]_vars

(* ------------------------------- C12 ----------------------------------- *)

\* r is an accepted dispatch that returned success and left the state target
SucceedsInto(r, target) == (r.invoked /\ r.success) => r.c.state = target

Refused(r, c) ==
    /\ ~r.invoked
    /\ ~r.success
    /\ r.current_state = c.state
    /\ r.c = c
    /\ r.st = store

\* C13: when a known intent is dispatched in a state where it is not legal
\* (identify_user when state # UNIDENTIFIED, an appointment intent when not
\* identified), the operation is not invoked, the result has success = false
\* and carries the current state, and no field of the context nor the store
\* changes; the same attempt repeated on what it left gives the same result.
C13_ValidationFailureHasNoEffect ==
    \A s \in Sessions :
        LET c == ctx[s]
        IN  /\ c.state # UNIDENTIFIED =>
                \A e \in IdentifyEntities :
                    LET r == OnIdentifyUser(c, store, e)
                    IN  Refused(r, c) /\ OnIdentifyUser(r.c, r.st, e) = r
            /\ ~is_identified(c) =>
                /\ LET r == OnFetchSlots(c, store)
                   IN  Refused(r, c) /\ OnFetchSlots(r.c, r.st) = r
                /\ \A e \in BookEntities :
                    LET r == OnBookAppointment(c, store, e)
                    IN  Refused(r, c) /\ OnBookAppointment(r.c, r.st, e) = r
                /\ LET r == OnRetrieveAppointments(c, store)
                   IN  Refused(r, c) /\ OnRetrieveAppointments(r.c, r.st) = r
                /\ \A id \in IdArgs :
                    LET r == OnCancelAppointment(c, store, id)
                    IN  Refused(r, c) /\ OnCancelAppointment(r.c, r.st, id) = r
                /\ \A id \in IdArgs, e \in ModifyChanges :
                    LET r == OnModifyAppointment(c, store, id, e)
                    IN  /\ Refused(r, c)
                        /\ OnModifyAppointment(r.c, r.st, id, e) = r

\* both kinds of illegal attempt are at hand: one session is identified and
\* has worked on (identify_user is illegal for it, with a phone that is not
\* its own), the other is unidentified next to a record it could try to
\* cancel
C13_Witness ==
    \E a, b \in Sessions :
        /\ ctx[a].state \notin {UNIDENTIFIED, IDENTIFIED}
        /\ ctx[a].user_phone = Phone5551234567
        /\ ~OnIdentifyUser(ctx[a], store,
                           [phone |-> PhonePlus1, name |-> None]).invoked
        /\ ctx[b].state = UNIDENTIFIED
        /\ store # << >>
        /\ store[1].status = "booked"
        /\ ~OnCancelAppointment(ctx[b], store, store[1].id).invoked

(* ------------------------------- C14 ----------------------------------- *)

\* C14: dispatching an intent that is no known operation name never changes
\* the context or the store and returns success = false; when the intent is
\* the sentinel "unknown" the result carries a non-empty suggestions list,
\* in every conversation state.
C14_UnknownIntentHasNoEffect ==
    \A s \in Sessions, cur \in ConversationState, intent \in UnknownIntents :
        LET c == [ctx[s] EXCEPT !.state = cur]
            r == OnUnknownIntent(c, store, intent)
        IN  /\ ~r.success
            /\ ~r.invoked
            /\ r.c = c
            /\ r.st = store
            /\ intent = "unknown" =>
                /\ r.suggestions # << >>
                /\ r.suggestions = _get_suggestions(c)

\* a session in a working state, with a context and a store an unknown
\* intent could spoil, for which the sentinel is answered with the
\* suggestion of the last branch of _get_suggestions
C14_Witness ==
    \E s \in Sessions :
        /\ ctx[s].state \in WorkingStates
        /\ ctx[s].pending_appointment # None
        /\ store # << >>
        /\ OnUnknownIntent(ctx[s], store, "unknown").suggestions =
                <<"Continue with your current request or say 'help'">>
        /\ OnUnknownIntent(ctx[s], store, "transfer_funds").suggestions = << >>

(* ------------------------------- C15 ----------------------------------- *)

\* C15: in any sequence of dispatches on a context, once user_phone has been
\* set no later dispatch, a further identify_user with another phone
\* included, changes user_phone or user_name.
C15_PhoneAndNameSetOnce ==
    [][\A s \in Sessions :
        ctx[s].user_phone # NonePhone =>
            /\ ctx'[s].user_phone = ctx[s].user_phone
            /\ ctx'[s].user_name = ctx[s].user_name]_vars

\* a session identified as 5551234567 / John has run two more tools since,
\* and an identify_user with another phone and no name is still refused
C15_Witness ==
    \E s \in Sessions :
        /\ Len(ctx[s].identified_intents) >= 3
        /\ Head(ctx[s].identified_intents) = "identify_user"
        /\ ctx[s].user_phone = Phone5551234567
        /\ ctx[s].user_name = "John"
        /\ LET r == OnIdentifyUser(ctx[s], store,
                                   [phone |-> PhonePlus1, name |-> None])
           IN  ~r.success /\ r.c.user_phone = Phone5551234567

(* ------------------------------- C16 ----------------------------------- *)

\* C16: identify_user invoked directly on a context, as the voice
\* pipeline's function tool does, in any state other than UNIDENTIFIED fails
\* and leaves user_phone and user_name unchanged.
C16_DirectIdentifyChecksState ==
    \A s \in Sessions, e \in IdentifyEntities :
        ctx[s].state # UNIDENTIFIED =>
            LET r == identify_user(ctx[s], store, e.phone, e.name)
            IN  /\ ~r.success
                /\ r.c.user_phone = ctx[s].user_phone
                /\ r.c.user_name = ctx[s].user_name

(* ------------------------------- C17 ----------------------------------- *)

\* the arguments fail one of book_appointment's three validations: the date
\* or the time does not parse (or is no string at all), the date is before
\* today, or the hour is outside business hours
FailsValidation(e) ==
    \/ ParseDate(e.date) = -1
    \/ ParseTime(e.time) = -1
    \/ ParseDate(e.date) < Today
    \/ ParseTime(e.time) \notin AVAILABLE_HOURS

\* C17: a book_appointment by an identified session that fails - unparsable
\* date or time, date before today, hour outside 9..16, or a slot the store
\* has booked - returns success = false, adds or changes no store record
\* and leaves context.state and context.pending_appointment unchanged; a
\* validation failure makes no store call at all.
C17_FailedBookingHasNoEffect ==
    \A s \in Sessions, e \in BookEntities :
        LET c == ctx[s]
            r == OnBookAppointment(c, store, e)
        IN  is_identified(c) =>
                /\ (FailsValidation(e) \/ SlotTaken(store, e.date, e.time, None))
                        => ~r.success
                /\ ~r.success =>
                        /\ r.st = store
                        /\ r.c.state = c.state
                        /\ r.c.pending_appointment = c.pending_appointment
                /\ FailsValidation(e) => r.calls = {}
                /\ (~r.success /\ ~FailsValidation(e)) =>
                        /\ r.calls = {"create_appointment"}
                        /\ r.error = "slot_already_booked"

\* a session holds a booking in the store and its latest dispatch was a
\* book_appointment that failed: the store and pending_appointment are as
\* the first booking left them, and both a conflicting and an out-of-hours
\* request are refused
C17_Witness ==
    \E s \in Sessions :
        /\ ctx[s].identified_intents =
                <<"identify_user", "book_appointment", "book_appointment">>
        /\ Len(store) = 1
        /\ ctx[s].pending_appointment = store[1].id
        /\ ctx[s].state = COMPLETED
        /\ ~OnBookAppointment(ctx[s], store,
                [date |-> store[1].appointment_date,
                 time |-> store[1].appointment_time]).success
        /\ ~OnBookAppointment(ctx[s], store,
                [date |-> "2026-01-28", time |-> "20:00"]).success

(* ------------------------------- C18 ----------------------------------- *)

\* C18: after cancel_appointment has succeeded for an appointment id (the
\* record's status is cancelled), another cancel_appointment on the same id
\* by the same owner returns success = false.
C18_RepeatedCancelRejected ==
    \A s \in Sessions, i \in 1..Len(store) :
        (/\ is_identified(ctx[s])
         /\ store[i].user_phone = ctx[s].user_phone
         /\ store[i].status = "cancelled")
        => ~OnCancelAppointment(ctx[s], store, store[i].id).success

(* ------------------------------- C19 ----------------------------------- *)

\* the appointment ids present in st
StoreIds(st) == {st[i].id : i \in 1..Len(st)}

\* C19: a cancel_appointment that succeeds leaves the record with that id
\* in the store, with status = cancelled, and no dispatch of any session,
\* whatever its intent and entities, removes an appointment id from the
\* store.
C19_CancelKeepsRecord ==
    \A s \in Sessions :
        /\ \A o \in DispatchOutcomes(ctx[s], store) :
                StoreIds(store) \subseteq StoreIds(o.st)
        /\ \A id \in IdArgs :
            LET r == OnCancelAppointment(ctx[s], store, id)
            IN  r.success =>
                    /\ Len(r.st) = Len(store)
                    /\ \E i \in IndexOfId(r.st, id) :
                            r.st[i] = [store[i] EXCEPT !.status = "cancelled"]

\* a session has cancelled its booking and booked again: the cancelled
\* record is still there, under its id, next to the new one
C19_Witness ==
    \E s \in Sessions :
        /\ ctx[s].identified_intents =
            <<"identify_user", "book_appointment", "cancel_appointment",
              "book_appointment">>
        /\ StoreIds(store) = {MockId(1), MockId(2)}
        /\ store[1].status = "cancelled"
        /\ store[2].status = "booked"

(* ------------------------------- C20 ----------------------------------- *)

\* C20: cancel_appointment or modify_appointment dispatched with the id of
\* an existing record by a session whose user_phone is not the record's
\* returns success = false and leaves every field of the record (and the
\* rest of the store) unchanged.
C20_OwnershipIsolation ==
    \A s \in Sessions, i \in 1..Len(store) :
        store[i].user_phone # ctx[s].user_phone =>
            /\ LET r == OnCancelAppointment(ctx[s], store, store[i].id)
               IN  ~r.success /\ r.st[i] = store[i] /\ r.st = store
            /\ \A e \in ModifyChanges :
                LET r == OnModifyAppointment(ctx[s], store, store[i].id, e)
                IN  ~r.success /\ r.st[i] = store[i] /\ r.st = store

\* session a holds a booking; session b, identified with another phone, has
\* dispatched cancel_appointment, which got as far as the store, and the
\* record is still a's and still booked
C20_Witness ==
    \E a, b \in Sessions :
        /\ ctx[a].pending_appointment = MockId(1)
        /\ store = <<[store[1] EXCEPT !.user_phone = ctx[a].user_phone,
                                      !.status = "booked"]>>
        /\ ctx[b].user_phone \notin {NonePhone, ctx[a].user_phone}
        /\ ctx[b].identified_intents = <<"identify_user", "cancel_appointment">>
        /\ ctx[b].state = CANCELLING
        /\ OnCancelAppointment(ctx[b], store, MockId(1)).error = "no_permission"
        /\ OnModifyAppointment(ctx[b], store, MockId(1),
                [new_date |-> "2026-01-29", new_time |-> Missing]).error
                = "no_permission"

(* ------------------------------- C21 ----------------------------------- *)

\* C21: no slot returned by fetch_slots has a (date, time) for which the
\* store holds a record with status = booked, whatever earlier bookings
\* have put into the store.
C21_FetchSlotsExcludesBooked ==
    \A s \in Sessions :
        OnFetchSlots(ctx[s], store).success =>
            LET slots == fetch_slots_returned(Today).slots
            IN  \A k \in 1..Len(slots) :
                    BookedAt(store, slots[k].date, slots[k].time) = {}

(* ------------------------------- C22 ----------------------------------- *)

\* the "appointments" key of the result of a retrieve_appointments dispatch
\* that the store answered, as the ids of the records in the order returned
RetrievedBy(c, st) == get_user_appointments(st, c.user_phone, "booked")

\* the ids of st's booked records of this phone, in store order
RECURSIVE BookedIdsOf(_, _)
BookedIdsOf(st, phone) ==
    IF st = << >> THEN << >>
    ELSE (IF Head(st).user_phone = phone /\ Head(st).status = "booked"
          THEN <<Head(st).id>> ELSE << >>)
         \o BookedIdsOf(Tail(st), phone)

\* C22: retrieve_appointments returns exactly the store records whose
\* user_phone equals the session's user_phone and whose status is booked,
\* never another phone's, whichever session created them.
C22_RetrieveReturnsOwnBooked ==
    \A s \in Sessions :
        LET r == OnRetrieveAppointments(ctx[s], store)
        IN  is_identified(ctx[s]) =>
                /\ r.success
                /\ r.calls = {"get_user_appointments"}
                /\ r.st = store
                /\ RetrievedBy(r.c, r.st) = BookedIdsOf(store, ctx[s].user_phone)
                /\ \A i \in 1..Len(store) :
                        (\E k \in 1..Len(RetrievedBy(r.c, r.st)) :
                            RetrievedBy(r.c, r.st)[k] = store[i].id)
                        <=> /\ store[i].user_phone = ctx[s].user_phone
                            /\ store[i].status = "booked"

\* a booking made through one context is returned to another context
\* identified with the same phone, which has just retrieved
C22_Witness ==
    \E a, b \in Sessions :
        /\ a # b
        /\ ctx[a].pending_appointment # None
        /\ ctx[b].pending_appointment = None
        /\ ctx[b].user_phone = ctx[a].user_phone
        /\ JustRan(b, "retrieve_appointments")
        /\ RetrievedBy(ctx[b], store) = <<ctx[a].pending_appointment>>

(* ------------------------------- C23 ----------------------------------- *)

\* the argument is given: neither absent nor None nor empty
Given(x) == x \notin {Missing, None, ""}

\* the modify_appointment entities that ask for a change
RealChanges == {e \in ModifyChanges : Given(e.new_date) \/ Given(e.new_time)}

\* the slot record i of st would hold after the change e
ProposedDate(st, i, e) ==
    IF Given(e.new_date) THEN e.new_date ELSE st[i].appointment_date

ProposedTime(st, i, e) ==
    IF Given(e.new_time) THEN e.new_time ELSE st[i].appointment_time

\* a booked record other than record i holds the slot proposed for i
ProposedSlotOccupied(st, i, e) ==
    \E j \in BookedAt(st, ProposedDate(st, i, e), ProposedTime(st, i, e)) :
        j # i

\* C23: modify_appointment by the owner checks the proposed slot (new_date
\* or the current date, new_time or the current time) against the other
\* booked records: it fails and changes no record when another booked record
\* holds the proposed slot, and otherwise succeeds, so the record's own
\* current slot never rejects it.
C23_ModifyRechecksProposedSlot ==
    \A s \in Sessions, i \in 1..Len(store), e \in RealChanges :
        (is_identified(ctx[s]) /\ store[i].user_phone = ctx[s].user_phone) =>
            LET r == OnModifyAppointment(ctx[s], store, store[i].id, e)
            IN  IF ProposedSlotOccupied(store, i, e)
                THEN /\ ~r.success
                     /\ r.error = "new_slot_already_booked"
                     /\ r.st = store
                ELSE /\ r.success
                     /\ r.st[i].appointment_date = ProposedDate(store, i, e)
                     /\ r.st[i].appointment_time = ProposedTime(store, i, e)

\* a session with two bookings has modified one: moving a record onto the
\* other's slot is refused, and a change that proposes a record's own
\* current slot is accepted
C23_Witness ==
    \E s \in Sessions :
        /\ JustRan(s, "modify_appointment")
        /\ Len(store) = 2
        /\ store[1].status = "booked"
        /\ store[2].status = "booked"
        /\ store[1].appointment_date = "2026-01-28"
        /\ store[1].appointment_time = "09:00"
        /\ OnModifyAppointment(ctx[s], store, store[2].id,
                [new_date |-> "2026-01-28", new_time |-> "09:00"]).error
                = "new_slot_already_booked"
        /\ OnModifyAppointment(ctx[s], store, store[1].id,
                [new_date |-> "2026-01-28", new_time |-> "09:00"]).success

(* ------------------------------- C24 ----------------------------------- *)

\* C24: a modify_appointment that succeeds changes, of the whole store,
\* only the appointment_date (when new_date is given) and the
\* appointment_time (when new_time is given) of the record with that id:
\* its id, user_phone, user_name, status and notes, and every other record,
\* are as before.
C24_ModifyUpdatesOnlySupplied ==
    \A s \in Sessions, id \in IdArgs, e \in ModifyChanges :
        LET r == OnModifyAppointment(ctx[s], store, id, e)
        IN  r.success =>
                /\ Len(r.st) = Len(store)
                /\ \E i \in IndexOfId(store, id) :
                    /\ r.st[i] =
                        [store[i] EXCEPT
                            !.appointment_date =
                                IF Given(e.new_date) THEN e.new_date ELSE @,
                            !.appointment_time =
                                IF Given(e.new_time) THEN e.new_time ELSE @]
                    /\ \A j \in 1..Len(store) : j # i => r.st[j] = store[j]

\* a session has booked, cancelled and then modified its record, which
\* stayed cancelled, and a change of the time alone would keep its date
C24_Witness ==
    \E s \in Sessions :
        /\ ctx[s].identified_intents =
            <<"identify_user", "book_appointment", "cancel_appointment",
              "modify_appointment">>
        /\ Len(store) = 1
        /\ store[1].status = "cancelled"
        /\ LET r == OnModifyAppointment(ctx[s], store, store[1].id,
                        [new_date |-> None, new_time |-> "14:00"])
           IN  /\ r.success
               /\ r.st[1].appointment_date = store[1].appointment_date
               /\ r.st[1].status = "cancelled"

(* ------------------------------- C25 ----------------------------------- *)

\* C25: whenever a dispatched operation returns success = false (empty or
\* unknown appointment id, nothing to change, ownership mismatch, slot
\* conflict, invalid phone, ...), context.state, user_phone,
\* pending_appointment and the store are exactly as before the call.
C25_FailureAppliesNothing ==
    \A s \in Sessions :
        \A o \in DispatchOutcomes(ctx[s], store) :
            ~o.success =>
                /\ o.c.state = ctx[s].state
                /\ o.c.user_phone = ctx[s].user_phone
                /\ o.c.pending_appointment = ctx[s].pending_appointment
                /\ o.st = store

(* ------------------------------- C26 ----------------------------------- *)

\* the dispatch r of this intent on context c appended the intent once,
\* after the earlier entries, if its tool was called and returned, and left
\* identified_intents alone if not
Audited(r, c, intent) ==
    r.c.identified_intents =
        IF r.invoked /\ r.raised = "none"
        THEN Append(c.identified_intents, intent)
        ELSE c.identified_intents

\* C26: a dispatch appends its intent to identified_intents exactly once
\* when the operation was invoked and returned, with success or with a
\* domain-level failure, and appends nothing when the intent is unknown,
\* when the pre-dispatch validation fails or when the operation raises; the
\* earlier entries stay as they are, in their order.
C26_AuditTrailAppendOnly ==
    \A s \in Sessions :
        LET c == ctx[s]
            Refusal(r, intent) ==
                ~_validate_state_for_intent(intent, c) => ~r.invoked
        IN  /\ \A e \in IdentifyEntities :
                LET r == OnIdentifyUser(c, store, e)
                IN  Audited(r, c, "identify_user")
                    /\ Refusal(r, "identify_user")
            /\ LET r == OnFetchSlots(c, store)
               IN  Audited(r, c, "fetch_slots") /\ Refusal(r, "fetch_slots")
            /\ \A e \in BookEntities :
                LET r == OnBookAppointment(c, store, e)
                IN  /\ Audited(r, c, "book_appointment")
                    /\ Refusal(r, "book_appointment")
                    /\ r.error = "slot_already_booked" =>
                            r.c.identified_intents =
                                Append(c.identified_intents, "book_appointment")
            /\ LET r == OnRetrieveAppointments(c, store)
               IN  Audited(r, c, "retrieve_appointments")
                   /\ Refusal(r, "retrieve_appointments")
            /\ \A id \in IdArgs :
                LET r == OnCancelAppointment(c, store, id)
                IN  Audited(r, c, "cancel_appointment")
                    /\ Refusal(r, "cancel_appointment")
            /\ \A id \in IdArgs, e \in ModifyChanges :
                LET r == OnModifyAppointment(c, store, id, e)
                IN  Audited(r, c, "modify_appointment")
                    /\ Refusal(r, "modify_appointment")
            /\ LET r == OnEndConversation(c, store)
               IN  Audited(r, c, "end_conversation") /\ r.invoked
            /\ \A intent \in UnknownIntents :
                LET r == OnUnknownIntent(c, store, intent)
                IN  ~r.invoked /\ r.c.identified_intents = c.identified_intents

\* a trail that holds a success and a domain-level failure (a cancel of an
\* id the empty store does not have), in a state where a booking without
\* its date raises and is not recorded
C26_Witness ==
    \E s \in Sessions :
        /\ ctx[s].identified_intents = <<"identify_user", "cancel_appointment">>
        /\ store = << >>
        /\ LET r == OnBookAppointment(ctx[s], store,
                        [date |-> Missing, time |-> "14:00"])
           IN  /\ r.raised = "TypeError"
               /\ r.c.identified_intents = ctx[s].identified_intents
        /\ OnEndConversation(ctx[s], store).c.identified_intents =
                <<"identify_user", "cancel_appointment", "end_conversation">>

(* ------------------------------- C27 ----------------------------------- *)

\* the elements of a sequence
Elements(q) == {q[k] : k \in 1..Len(q)}

\* r, a dispatch of this intent on context c, either returned a result of
\* the tool or caught what the tool raised: a failure always has an error
\* text; a TypeError gives the invalid-parameters failure, any other
\* exception the generic failure, and neither changed the context or the
\* store
Contained(r, c, intent) ==
    /\ r.success \in BOOLEAN
    /\ ~r.success => r.error # ""
    /\ r.raised # "none" =>
        /\ ~r.success
        /\ r.c = c
        /\ r.st = store
    /\ r.raised = "TypeError" => r.error = "invalid_parameters"
    /\ r.raised \notin {"none", "TypeError"} => r.error = "error_executing"

\* the dispatch r of this intent lacked the required parameter param: if
\* the tool was called at all, the result is the invalid-parameters failure
\* and names param
NamesMissing(r, intent, param) ==
    r.invoked =>
        /\ r.raised = "TypeError"
        /\ param \in Elements(required_params(intent, r))

Separators == {"-", ".", "(", ")", " "}

PhoneParens ==
    <<"(", "5", "5", "5", ")", " ", "1", "2", "3", "-", "4", "5", "6", "7">>

\* phones made of digits and separators only
SeparatedPhones ==
    {p \in {e.phone : e \in IdentifyEntities} \cup {PhoneParens} :
        \A i \in 1..Len(p) : p[i] \in Digits \cup Separators}

\* C28: identify_user dispatched in UNIDENTIFIED with a phone of at least 10
\* digits and only the separators '-', '.', '(', ')' and space between them
\* succeeds and stores the phone with all separators removed; a phone with
\* fewer than 10 digits fails and leaves user_phone unset and the state
\* UNIDENTIFIED.
C28_NormalizationStripsSeparators ==
    \A s \in Sessions, p \in SeparatedPhones :
        ctx[s].state = UNIDENTIFIED =>
            LET r == OnIdentifyUser(ctx[s], store, [phone |-> p, name |-> "John"])
                digits == FilterSeq(p, Separators)
            IN  IF Len(digits) >= 10
                THEN /\ r.success
                     /\ r.c.user_phone = digits
                     /\ r.c.state = IDENTIFIED
                ELSE /\ ~r.success
                     /\ r.c.user_phone = NonePhone
                     /\ r.c.state = UNIDENTIFIED

(* ------------------------------- C29 ----------------------------------- *)

\* the step is a dispatch by session s whose tool returned
Acted(s) ==
    Len(ctx'[s].identified_intents) = Len(ctx[s].identified_intents) + 1

\* C29: with the dispatches of the sessions interleaved, an operation
\* dispatched on one session's context changes no field of another
\* session's context - state, user_phone, user_name, identified_intents, or
\* what its pending_appointment holds.
C29_SessionsIndependent ==
    [][\A a, b \in Sessions :
        (a # b /\ Acted(b)) =>
            /\ ctx'[a] = ctx[a]
            /\ pending_appointment_dict(ctx'[a], store') =
                    pending_appointment_dict(ctx[a], store)]_vars

(* ------------------------------- C30 ----------------------------------- *)

\* a week of values of datetime.now().date(), one for each day of the week
ClockDays == 26..32

\* the Saturdays and Sundays from 26 January to 8 February 2026
WeekendDays == {31, 32, 38, 39}

\* C30: fetch_slots returns the first 10 computed slots and the total
\* count: the returned list has length min(10, total_available) and is the
\* prefix of the computed list, and every computed slot lies on a weekday
\* within the next 7 days with a start hour in 9..16; on whichever day of the
\* week a session's fetch_slots ran.
C30_FetchSlotsFirstTenOfWeek ==
    \A today \in ClockDays :
        (\E s \in Sessions : JustRan(s, "fetch_slots")) =>
            LET all == SlotsFrom(today, 1)
                r == fetch_slots_returned(today)
            IN  /\ r.total_available = Len(all)
                /\ Len(r.slots) = IF Len(all) < 10 THEN Len(all) ELSE 10
                /\ \A k \in 1..Len(r.slots) : r.slots[k] = all[k]
                /\ \A k \in 1..Len(all) :
                    /\ ParseDate(all[k].date) \in (today + 1)..(today + 7)
                    /\ ParseDate(all[k].date) \notin WeekendDays
                    /\ ParseTime(all[k].time) \in 9..16
                    /\ all[k].available

\* a session has fetched slots on a Wednesday: ten of the 33 computed slots
\* are returned, the first at 11:00 of the next day
C30_Witness ==
    \E s \in Sessions :
        /\ JustRan(s, "fetch_slots")
        /\ ctx[s].state = BROWSING_SLOTS
        /\ fetch_slots_returned(Today).total_available = 33
        /\ Len(fetch_slots_returned(Today).slots) = 10
        /\ fetch_slots_returned(Today).slots[1] =
                [date |-> "2026-01-29", time |-> "11:00", available |-> TRUE]

(* ------------------------------- C31 ----------------------------------- *)

\* An utterance is the sequence of its characters.

\* "Show me available times": test_skeleton.py, Test 3
ShowMeAvailableTimes ==
    <<"S", "h", "o", "w", " ", "m", "e", " ", "a", "v", "a", "i", "l", "a",
      "b", "l", "e", " ", "t", "i", "m", "e", "s">>

\* "Book appointment for tomorrow at 2pm": test_skeleton.py, Test 4
BookAppointmentForTomorrow ==
    <<"B", "o", "o", "k", " ", "a", "p", "p", "o", "i", "n", "t", "m", "e",
      "n", "t", " ", "f", "o", "r", " ", "t", "o", "m", "o", "r", "r", "o",
      "w", " ", "a", "t", " ", "2", "p", "m">>

\* "Show my appointments": test_skeleton.py, Test 5
ShowMyAppointments ==
    <<"S", "h", "o", "w", " ", "m", "y", " ", "a", "p", "p", "o", "i", "n",
      "t", "m", "e", "n", "t", "s">>

\* "Goodbye": test_skeleton.py, Test 6
Goodbye ==
    <<"G", "o", "o", "d", "b", "y", "e">>

\* "List them": a retrieve keyword alone
ListThem ==
    <<"L", "i", "s", "t", " ", "t", "h", "e", "m">>

\* "Cancel it": a cancel keyword alone
CancelIt ==
    <<"C", "a", "n", "c", "e", "l", " ", "i", "t">>

\* "Cancel my appointment": a cancel keyword and 'appointment'
CancelMyAppointment ==
    <<"C", "a", "n", "c", "e", "l", " ", "m", "y", " ", "a", "p", "p", "o",
      "i", "n", "t", "m", "e", "n", "t">>

\* "Please reschedule": 'reschedule', which contains 'schedule'
PleaseReschedule ==
    <<"P", "l", "e", "a", "s", "e", " ", "r", "e", "s", "c", "h", "e", "d",
      "u", "l", "e">>

\* "Change it": a modify keyword alone
ChangeIt ==
    <<"C", "h", "a", "n", "g", "e", " ", "i", "t">>

\* "Hello": no keyword
Hello ==
    <<"H", "e", "l", "l", "o">>

Utterances ==
    {ShowMeAvailableTimes,
     BookAppointmentForTomorrow,
     ShowMyAppointments,
     Goodbye,
     ListThem,
     CancelIt,
     CancelMyAppointment,
     PleaseReschedule,
     ChangeIt,
     Hello}

UpperLetters ==
    <<"A", "B", "C", "D", "E", "F", "G", "H", "I", "J", "K", "L", "M",
      "N", "O", "P", "Q", "R", "S", "T", "U", "V", "W", "X", "Y", "Z">>

LowerLetters ==
    <<"a", "b", "c", "d", "e", "f", "g", "h", "i", "j", "k", "l", "m",
      "n", "o", "p", "q", "r", "s", "t", "u", "v", "w", "x", "y", "z">>

\* str.lower()
lower(message) ==
    [i \in 1..Len(message) |->
        IF \E k \in 1..Len(UpperLetters) : UpperLetters[k] = message[i]
        THEN LowerLetters[CHOOSE k \in 1..Len(UpperLetters) :
                                UpperLetters[k] = message[i]]
        ELSE message[i]]

\* word in message (a substring test, not a word test)
Contains(message, word) ==
    \E i \in 1..(Len(message) - Len(word) + 1) :
        SubSeq(message, i, i + Len(word) - 1) = word

\* any(word in message for word in words)
ContainsAny(message, words) == \E word \in words : Contains(message, word)

\* ['phone', 'number', 'identify', 'my name is']
IdentifyKeywords ==
    {<<"p", "h", "o", "n", "e">>,
     <<"n", "u", "m", "b", "e", "r">>,
     <<"i", "d", "e", "n", "t", "i", "f", "y">>,
     <<"m", "y", " ", "n", "a", "m", "e", " ", "i", "s">>}

\* ['available', 'slots', 'when', 'times']
FetchKeywords ==
    {<<"a", "v", "a", "i", "l", "a", "b", "l", "e">>,
     <<"s", "l", "o", "t", "s">>,
     <<"w", "h", "e", "n">>,
     <<"t", "i", "m", "e", "s">>}

\* ['book', 'schedule', 'appointment']
BookKeywords ==
    {<<"b", "o", "o", "k">>,
     <<"s", "c", "h", "e", "d", "u", "l", "e">>,
     <<"a", "p", "p", "o", "i", "n", "t", "m", "e", "n", "t">>}

\* ['my appointments', 'show', 'list', 'retrieve']
RetrieveKeywords ==
    {<<"m", "y", " ", "a", "p", "p", "o", "i", "n", "t", "m", "e", "n", "t", "s">>,
     <<"s", "h", "o", "w">>,
     <<"l", "i", "s", "t">>,
     <<"r", "e", "t", "r", "i", "e", "v", "e">>}

\* ['cancel', 'delete']
CancelKeywords ==
    {<<"c", "a", "n", "c", "e", "l">>,
     <<"d", "e", "l", "e", "t", "e">>}

\* ['modify', 'change', 'reschedule']
ModifyKeywords ==
    {<<"m", "o", "d", "i", "f", "y">>,
     <<"c", "h", "a", "n", "g", "e">>,
     <<"r", "e", "s", "c", "h", "e", "d", "u", "l", "e">>}

\* ['bye', 'end', 'goodbye', 'finish']
EndKeywords ==
    {<<"b", "y", "e">>,
     <<"e", "n", "d">>,
     <<"g", "o", "o", "d", "b", "y", "e">>,
     <<"f", "i", "n", "i", "s", "h">>}

\* the "intent" key of IntentRouter.classify_intent(user_message, context):
\* the first branch of the if/elif chain with a keyword in the lowered
\* message
classify_intent(user_message) ==
    LET user_message_lower == lower(user_message)
    IN  IF ContainsAny(user_message_lower, IdentifyKeywords)
        THEN "identify_user"
        ELSE IF ContainsAny(user_message_lower, FetchKeywords)
        THEN "fetch_slots"
        ELSE IF ContainsAny(user_message_lower, BookKeywords)
        THEN "book_appointment"
        ELSE IF ContainsAny(user_message_lower, RetrieveKeywords)
        THEN "retrieve_appointments"
        ELSE IF ContainsAny(user_message_lower, CancelKeywords)
        THEN "cancel_appointment"
        ELSE IF ContainsAny(user_message_lower, ModifyKeywords)
        THEN "modify_appointment"
        ELSE IF ContainsAny(user_message_lower, EndKeywords)
        THEN "end_conversation"
        ELSE "unknown"

\* the utterance has no keyword of the two branches tested before the
\* booking branch
NoEarlierKeyword(message) ==
    ~ContainsAny(lower(message), IdentifyKeywords \cup FetchKeywords)

\* C31: for an identified session, an utterance with a retrieve keyword
\* ('my appointments', 'show', 'list', 'retrieve') is classified, and so
\* dispatched, as retrieve_appointments, one with 'cancel' as
\* cancel_appointment and one with 'reschedule' as modify_appointment, even
\* when the utterance also contains the word 'appointment'.
C31_KeywordRoutesPastAppointment ==
    \A s \in Sessions :
        is_identified(ctx[s]) =>
            \A m \in Utterances :
                NoEarlierKeyword(m) =>
                    /\ ContainsAny(lower(m), RetrieveKeywords) =>
                            classify_intent(m) = "retrieve_appointments"
                    /\ Contains(lower(m), <<"c", "a", "n", "c", "e", "l">>) =>
                            classify_intent(m) = "cancel_appointment"
                    /\ Contains(lower(m), <<"r", "e", "s", "c", "h", "e", "d", "u", "l", "e">>) =>
                            classify_intent(m) = "modify_appointment"

(* ------------------------------- C32 ----------------------------------- *)

\* new_date / new_time arguments that book_appointment would refuse: an hour
\* outside AVAILABLE_HOURS, a past date, a date that is no ISO date
UncheckedChanges ==
    {[new_date |-> Missing,      new_time |-> "20:00"],
     [new_date |-> "2026-01-27", new_time |-> Missing],
     [new_date |-> "tomorrow",   new_time |-> Missing]}

\* every booked record of st has a start hour in AVAILABLE_HOURS and an ISO
\* date that is not before today
BookedRecordsValid(st) ==
    \A i \in 1..Len(st) :
        st[i].status = "booked" =>
            /\ ParseTime(st[i].appointment_time) \in AVAILABLE_HOURS
            /\ ParseDate(st[i].appointment_date) >= Today

\* C32: after any sequence of dispatches (book, cancel, modify, with any
\* arguments), every store record with status = booked has an
\* appointment_time whose hour is in 9..16 and a well-formed date that was
\* not in the past when it was set.
C32_BookedRecordsKeepRules ==
    /\ BookedRecordsValid(store)
    /\ \A s \in Sessions :
        /\ \A e \in BookEntities :
                BookedRecordsValid(OnBookAppointment(ctx[s], store, e).st)
        /\ \A id \in IdArgs, e \in ModifyChanges \cup UncheckedChanges :
                BookedRecordsValid(OnModifyAppointment(ctx[s], store, id, e).st)

(* ------------------------------- C33 ----------------------------------- *)

\* bookings of the valid slots at 9 o'clock with the hour written without
\* its leading zero, which strptime(time, "%H:%M") parses as well
UnpaddedBookEntities == [date : ValidDates, time : {"9:00"}]

\* no two booked records of st denote the same date and clock time
NoTwoBookedShareClockSlot(st) ==
    \A i, j \in 1..Len(st) :
        (/\ i # j
         /\ st[i].status = "booked"
         /\ st[j].status = "booked"
         /\ ParseDate(st[i].appointment_date) = ParseDate(st[j].appointment_date))
            => ParseTime(st[i].appointment_time) # ParseTime(st[j].appointment_time)

\* C33: two book_appointment calls whose time strings parse under HH:MM to
\* the same clock time on the same date ("9:00" and "09:00") cannot both
\* succeed: no two booked records denote the same clock slot, in the store
\* and after one more booking however its time is written.
C33_NoTwoBookedShareClockSlot ==
    /\ NoTwoBookedShareClockSlot(store)
    /\ \A s \in Sessions, e \in BookEntities \cup UnpaddedBookEntities :
            NoTwoBookedShareClockSlot(OnBookAppointment(ctx[s], store, e).st)

(* ------------------------------- C34 ----------------------------------- *)

C35_StatusMonotone ==
    [][\A i \in 1..Len(store) :
        /\ i <= Len(store')
        /\ store'[i].id = store[i].id
        /\ \/ store'[i].status = store[i].status
           \/ store[i].status = "booked" /\ store'[i].status = "cancelled"]_vars

\* a session has booked, cancelled, and then modified the cancelled record:
\* it is still cancelled, and cancelling or modifying it once more succeeds
\* and leaves it cancelled
C35_Witness ==
    \E s \in Sessions :
        /\ ctx[s].identified_intents =
            <<"identify_user", "book_appointment", "cancel_appointment",
              "modify_appointment">>
        /\ Len(store) = 1
        /\ store[1].status = "cancelled"
        /\ LET r == OnModifyAppointment(ctx[s], store, store[1].id,
                        [new_date |-> "2026-01-29", new_time |-> Missing])
           IN  r.success /\ r.st[1].status = "cancelled"
        /\ LET r == OnCancelAppointment(ctx[s], store, store[1].id)
           IN  r.success /\ r.st[1].status = "cancelled"

(* ------------------------------- C36 ----------------------------------- *)

\* the cancelled records of st at (date, time)
CancelledAt(st, date, time) ==
    {i \in 1..Len(st) : /\ st[i].appointment_date = date
                        /\ st[i].appointment_time = time
                        /\ st[i].status = "cancelled"}

\* C36: when the booked record of a valid (date, time) has been cancelled
\* and no booked record is left at that slot, a book_appointment for the
\* same (date, time) by any identified session succeeds, and the store then
\* holds the cancelled record as it was and one booked record for the slot.
C36_CancelledSlotBookableAgain ==
    \A e \in [date : ValidDates, time : ValidTimes] :
        (/\ CancelledAt(store, e.date, e.time) # {}
         /\ BookedAt(store, e.date, e.time) = {}) =>
            \A s \in Sessions :
                is_identified(ctx[s]) =>
                    LET r == OnBookAppointment(ctx[s], store, e)
                    IN  /\ r.success
                        /\ Len(r.st) = Len(store) + 1
                        /\ SubSeq(r.st, 1, Len(store)) = store
                        /\ BookedAt(r.st, e.date, e.time) = {Len(r.st)}
                        /\ r.st[Len(r.st)].user_phone = ctx[s].user_phone

\* a session has booked a slot, cancelled it and booked it again: one
\* cancelled and one booked record for the same slot
C36_Witness ==
    \E s \in Sessions :
        /\ ctx[s].identified_intents =
            <<"identify_user", "book_appointment", "cancel_appointment",
              "book_appointment">>
        /\ Len(store) = 2
        /\ store[1].status = "cancelled"
        /\ store[2].status = "booked"
        /\ store[1].appointment_date = store[2].appointment_date
        /\ store[1].appointment_time = store[2].appointment_time

(* ------------------------------- C37 ----------------------------------- *)

\* C37: after every step, a context's pending_appointment, if set,
\* identifies a record present in the store whose user_phone equals the
\* context's user_phone; and the field changes only in a successful
\* book_appointment of this session, which sets it to the record the store
\* has just appended: no other operation sets or clears it.
C37_PendingSetOnlyByOwnBooking ==
    [][\A s \in Sessions :
        /\ ctx'[s].pending_appointment # None =>
            \E i \in IndexOfId(store', ctx'[s].pending_appointment) :
                store'[i].user_phone = ctx'[s].user_phone
        /\ ctx'[s].pending_appointment # ctx[s].pending_appointment =>
            /\ Len(store') = Len(store) + 1
            /\ store'[Len(store')].id = ctx'[s].pending_appointment
            /\ store'[Len(store')].user_phone = ctx[s].user_phone]_vars

====
